---- MODULE Spec2Model ----
(***************************************************************************)
(* A model of the Sigil script engine (src/core/sigil.py): the undo/redo   *)
(* journal over a small filesystem, and the control-flow interpreter.      *)
(***************************************************************************)
EXTENDS Integers, Sequences, FiniteSets, TLC

(***************************************************************************)
(* Bounds of the model.                                                    *)
(***************************************************************************)
\* Config.UNDO_LIMIT is 200 in the source; the journal is explored with a
\* small capacity so that eviction happens.
UNDO_LIMIT == 2
\* jumps taken by the goto lines of one run (a backward goto may loop forever)
MaxJumps == 2
\* longest buffer with labels and goto lines
MaxGotoLines == 4
\* number of journaled commands (mk, cpy, dlt, move) issued in one session
MaxCmds == 3
\* lines entered at the prompt in one session
MaxStore == 3
\* the recursion limit of the Python interpreter (1000 by default)
RecursionLimit == 3

\* Config.ALIAS_RECURSION_LIMIT
ALIAS_RECURSION_LIMIT == 20

VARIABLES
    fs,           \* the filesystem: path -> node
    backups,      \* Config.UNDO_DIR: backup id -> node (ids are never reused)
    undo_stack,   \* State.undo_stack
    redo_stack,   \* State.redo_stack
    last,         \* State.variables['last'] (also LAST, LAST_EXIT)
    ncmds,        \* journaled commands issued so far
    pushed,       \* history: the records handed to UndoManager.push, in order,
                  \*          as long as neither undo nor redo has moved one
    jlast,        \* history: the last journal operation and what it met
    touched,      \* history: TRUE once undo or redo has moved a record
    run,          \* history: the current run of undos followed by redos
    cyc           \* history: progress of undo/redo cycles after mk file

jvars == <<fs, backups, undo_stack, redo_stack, last, ncmds, pushed, jlast, touched,
           run, cyc>>

\* the interpreter
VARIABLES
    stack,        \* the call stack, innermost frame last
    signal,       \* the exception in flight: "none", "break", "exit", "error"
    status,       \* "running", or "exited" once the process has ended
    exit_code,    \* the status the process ended with
    ilast,        \* State.variables['last'] of the interpreter run
    variables,    \* State.variables: the user variables, name -> str(value)
    trace,        \* history: handler calls, iteration starts and reports
    prog          \* history: the scenario that was started

ivars == <<stack, signal, status, exit_code, ilast, variables, trace, prog>>

\* the tables of State that the definition commands write, and the rc files
VARIABLES
    aliases,         \* State.aliases: name -> the tokens of the command text
    readonly_vars,   \* State.readonly_vars
    exported_vars,   \* State.exported_vars
    user_functions,  \* State.functions: name -> the list of its commands
    current_profile, \* State.current_profile
    rc_files,        \* the rc file of each profile: its definition lines
    os_environ,      \* os.environ: name -> value
    nlines,          \* lines entered at the prompt so far
    ro_writes,       \* history: name -> the value of its latest write that
                     \*          carried the readonly flag, in this profile
    slast            \* history: the last line entered and what it met

svars == <<aliases, readonly_vars, exported_vars, user_functions, current_profile,
           rc_files, os_environ, nlines, ro_writes, slast>>

\* the text functions of TextProcessor, applied to a line or to a buffer
VARIABLES
    subject,          \* the function under study and its argument
    returned,         \* what the calls made so far returned, in order
    in_block_comment  \* the local of run_lines that is carried from line to line

tvars == <<subject, returned, in_block_comment>>

\* no text function is under study
TextAtRest ==
    /\ subject = [fn |-> "none", arg |-> <<>>]
    /\ returned = <<>>
    /\ in_block_comment = FALSE

vars == <<fs, backups, undo_stack, redo_stack, last, ncmds, pushed, jlast, touched,
          run, cyc, stack, signal, status, exit_code, ilast, variables, trace, prog,
          aliases, readonly_vars, exported_vars, user_functions, current_profile,
          rc_files, os_environ, nlines, ro_writes, slast, subject, returned,
          in_block_comment>>

StoreIdle == UNCHANGED svars

TextIdle == UNCHANGED tvars

(***************************************************************************)
(* The filesystem.  Paths are flat; a node is absent, a file with its      *)
(* content, or a directory with an abstract token standing for its tree.   *)
(***************************************************************************)
Paths == {"p", "q"}

NoNode == [kind |-> "none", data |-> ""]
File(c) == [kind |-> "file", data |-> c]
Dir(c) == [kind |-> "dir", data |-> c]

Exists(f, p) == f[p].kind # "none"
IsDir(f, p) == f[p].kind = "dir"

\* shutil.move / shutil.copy2 of node n onto path d: into d when d is a
\* directory (its tree changes), over d when d is a file, else as d.
Place(n, f, d) ==
    IF n.kind = "none" THEN [ok |-> FALSE, fs |-> f]
    ELSE IF f[d].kind = "dir" THEN [ok |-> TRUE, fs |-> [f EXCEPT ![d] = Dir("x")]]
    ELSE IF f[d].kind = "file" /\ n.kind = "dir" THEN [ok |-> FALSE, fs |-> f]
    ELSE [ok |-> TRUE, fs |-> [f EXCEPT ![d] = n]]

\* shutil.rmtree / Path.unlink
Remove(f, p) == [f EXCEPT ![p] = NoNode]

\* UndoManager.backup_path: move the object into a fresh backup location.
\* The result is the backup id (0 for None), the filesystem and the store.
backup_path(f, b, p) ==
    IF ~Exists(f, p) THEN [id |-> 0, fs |-> f, backups |-> b]
    ELSE [id |-> Len(b) + 1, fs |-> Remove(f, p), backups |-> Append(b, f[p])]

\* UndoManager.backup_contents: copy a file into a fresh backup location.
backup_contents(f, b, p) ==
    IF ~Exists(f, p) \/ IsDir(f, p) THEN [id |-> 0, fs |-> f, backups |-> b]
    ELSE [id |-> Len(b) + 1, fs |-> f, backups |-> Append(b, f[p])]

\* UndoManager.safe_move(Path(backup), dst): move a backup out of the store.
safe_move(f, b, id, d) ==
    LET n == IF id \in 1..Len(b) THEN b[id] ELSE NoNode
        r == Place(n, f, d)
    IN  IF r.ok THEN [ok |-> TRUE, fs |-> r.fs, backups |-> [b EXCEPT ![id] = NoNode]]
        ELSE [ok |-> FALSE, fs |-> f, backups |-> b]

(***************************************************************************)
(* Action records.  One record shape for all kinds: for cpy and move,      *)
(* path is "src", existed is "dst_existed" and backup is "dst_backup".     *)
(***************************************************************************)
Rec(op, path, dst, existed, backup) ==
    [op |-> op, path |-> path, dst |-> dst, existed |-> existed, backup |-> backup]

\* UndoManager.push applied to the two stacks; the result is the new pair.
PushMutantNoEvict(us, rs, action) ==
    [undo |-> Append(us, action), redo |-> <<>>]

PushMutantKeepRedo(us, rs, action) ==
    LET s == Append(us, action)
    IN  [undo |-> IF Len(s) > UNDO_LIMIT THEN Tail(s) ELSE s, redo |-> rs]

push(us, rs, action) ==
    LET s == Append(us, action)
    IN  [undo |-> IF Len(s) > UNDO_LIMIT THEN Tail(s) ELSE s, redo |-> <<>>]


(***************************************************************************)
(* History bookkeeping of the journal (not program state).                 *)
(***************************************************************************)
NoRun == [u |-> 0, r |-> 0, undo0 |-> <<>>, redo0 |-> <<>>, fs0 |-> [p \in Paths |-> NoNode]]
NoCyc == [active |-> FALSE, n |-> 0, path |-> "", fs1 |-> [p \in Paths |-> NoNode],
          undo1 |-> <<>>, redo1 |-> <<>>]

\* the run of consecutive undos, then consecutive redos, that is in progress
\* (the filesystem is remembered for a run of one undo only)
RunAfterUndo ==
    IF run.u > 0 /\ run.r = 0 THEN [run EXCEPT !.u = run.u + 1, !.fs0 = NoRun.fs0]
    ELSE [u |-> 1, r |-> 0, undo0 |-> undo_stack, redo0 |-> redo_stack, fs0 |-> fs]

RunAfterRedo == IF run.r < run.u THEN [run EXCEPT !.r = run.r + 1] ELSE NoRun

\* the undo/redo cycles that follow the creation of a new file
CycAfterUndo == IF cyc.active /\ cyc.n \in {0, 2} THEN [cyc EXCEPT !.n = cyc.n + 1] ELSE NoCyc

CycAfterRedo(f, us, rs) ==
    IF cyc.active /\ cyc.n = 1
        THEN [cyc EXCEPT !.n = 2, !.fs1 = f, !.undo1 = us, !.redo1 = rs]
    ELSE IF cyc.active /\ cyc.n = 3 THEN [cyc EXCEPT !.n = 4]
    ELSE NoCyc

CycAfterPush(action) ==
    IF action.op = "mk_file" /\ ~action.existed
        THEN [NoCyc EXCEPT !.active = TRUE, !.path = action.path]
    ELSE NoCyc

\* what the last journal operation was: its handler, the record it pushed
\* or moved (NoRec when it did neither) and the length the redo stack had
JLast(op, rec) == [op |-> op, rec |-> rec, nredo |-> Len(redo_stack)]

NoRec == Rec("", "", "", FALSE, 0)

(***************************************************************************)
(* The journaled commands.  Each is one handler call; a handler that       *)
(* raises is caught by run_lines, which sets the last-status to 1.         *)
(***************************************************************************)
\* the common tail of a handler that recorded an action
Recorded(op, f, b, action) ==
    LET st == push(undo_stack, redo_stack, action)
    IN  /\ fs' = f
        /\ backups' = b
        /\ undo_stack' = st.undo
        /\ redo_stack' = st.redo
        /\ last' = 0
        /\ pushed' = IF touched THEN <<>> ELSE Append(pushed, action)
        /\ jlast' = JLast(op, action)
        /\ run' = NoRun
        /\ cyc' = CycAfterPush(action)
        /\ UNCHANGED touched

\* the common tail of a handler that failed before recording anything
NotRecorded(op, f, b) ==
    /\ fs' = f
    /\ backups' = b
    /\ last' = 1
    /\ jlast' = JLast(op, NoRec)
    /\ run' = NoRun
    /\ cyc' = NoCyc
    /\ UNCHANGED <<undo_stack, redo_stack, pushed, touched>>

\* Commands.mk with target type "dir"
mk_dir(path) ==
    /\ ncmds < MaxCmds
    /\ ncmds' = ncmds + 1
    /\ LET existed == Exists(fs, path)
           f == IF existed THEN fs ELSE [fs EXCEPT ![path] = Dir("")]
       IN  Recorded("mk", f, backups, Rec("mk_dir", path, "", existed, 0))

\* Commands.mk with target type "file"
mk_file(path, content) ==
    /\ ncmds < MaxCmds
    /\ ncmds' = ncmds + 1
    /\ LET existed == Exists(fs, path)
           bk == IF existed THEN backup_contents(fs, backups, path)
                 ELSE [id |-> 0, fs |-> fs, backups |-> backups]
       IN  IF IsDir(fs, path)
               THEN NotRecorded("mk", fs, backups)     \* write_text raises
           ELSE Recorded("mk", [fs EXCEPT ![path] = File(content)], bk.backups,
                         Rec("mk_file", path, "", existed, bk.id))

\* the backup of the destination taken by cpy and move
DstBackup(dst) ==
    IF ~Exists(fs, dst) THEN [id |-> 0, fs |-> fs, backups |-> backups]
    ELSE IF IsDir(fs, dst) THEN backup_path(fs, backups, dst)
    ELSE backup_contents(fs, backups, dst)

\* Commands.cpy
cpy(src, dst) ==
    /\ ncmds < MaxCmds
    /\ ncmds' = ncmds + 1
    /\ IF ~Exists(fs, src) THEN NotRecorded("cpy", fs, backups)
       ELSE LET dst_existed == Exists(fs, dst)
                bk == DstBackup(dst)
                action == Rec("cpy", src, dst, dst_existed, bk.id)
            IN  IF IsDir(bk.fs, src)
                    THEN IF Exists(bk.fs, dst)
                             THEN NotRecorded("cpy", bk.fs, bk.backups)
                         ELSE Recorded("cpy", [bk.fs EXCEPT ![dst] = bk.fs[src]],
                                       bk.backups, action)
                ELSE Recorded("cpy", [bk.fs EXCEPT ![dst] = bk.fs[src]],
                              bk.backups, action)

\* Commands.dlt
dlt(path) ==
    /\ ncmds < MaxCmds
    /\ ncmds' = ncmds + 1
    /\ IF ~Exists(fs, path) THEN NotRecorded("dlt", fs, backups)
       ELSE LET bk == backup_path(fs, backups, path)
            IN  Recorded("dlt", bk.fs, bk.backups, Rec("dlt", path, "", FALSE, bk.id))

\* Commands.move
move(src, dst) ==
    /\ ncmds < MaxCmds
    /\ ncmds' = ncmds + 1
    /\ IF ~Exists(fs, src) THEN NotRecorded("move", fs, backups)
       ELSE LET dst_existed == Exists(fs, dst)
                bk == DstBackup(dst)
                r == Place(bk.fs[src], bk.fs, dst)
            IN  IF r.ok
                    THEN Recorded("move", Remove(r.fs, src), bk.backups,
                                  Rec("move", src, dst, dst_existed, bk.id))
                ELSE NotRecorded("move", bk.fs, bk.backups)


\* Commands.wrt in mode "line" (`wrt line 1 w <path>`): the file is read,
\* its line replaced and the file written back; a directory makes read_text
\* raise, which the handler reports.  Nothing is handed to UndoManager.
wrt(path) ==
    /\ ncmds < MaxCmds
    /\ ncmds' = ncmds + 1
    /\ IF IsDir(fs, path) THEN NotRecorded("wrt", fs, backups)
       ELSE /\ fs' = [fs EXCEPT ![path] = File("w")]
            /\ last' = 0
            /\ jlast' = JLast("wrt", NoRec)
            /\ run' = NoRun
            /\ cyc' = NoCyc
            /\ UNCHANGED <<backups, undo_stack, redo_stack, pushed, touched>>

(***************************************************************************)
(* Undo and redo.  The filesystem step of each is an operator from the     *)
(* record and the current filesystem and backup store to the outcome:      *)
(* ok is FALSE when the step raised (the except branch) or the kind is     *)
(* unsupported; what was changed before the failure stays changed.         *)
(***************************************************************************)
Outcome(ok, f, b) == [ok |-> ok, fs |-> f, backups |-> b]

UndoStep(action, f, b) ==
    IF action.op = "mk_file" THEN
        IF action.existed /\ action.backup # 0 THEN
            \* shutil.copy2(backup, path): restore the previous contents
            LET r == Place(b[action.backup], f, action.path)
            IN  Outcome(r.ok, r.fs, b)
        ELSE Outcome(TRUE, Remove(f, action.path), b)
    ELSE IF action.op = "mk_dir" THEN
        Outcome(TRUE, IF IsDir(f, action.path) THEN Remove(f, action.path) ELSE f, b)
    ELSE IF action.op = "dlt" THEN
        IF action.backup # 0 THEN
            LET r == safe_move(f, b, action.backup, action.path)
            IN  Outcome(r.ok, r.fs, r.backups)
        ELSE Outcome(TRUE, f, b)
    ELSE IF action.op = "cpy" THEN
        LET f1 == Remove(f, action.dst)
        IN  IF action.backup # 0 THEN
                LET r == safe_move(f1, b, action.backup, action.dst)
                IN  Outcome(r.ok, r.fs, r.backups)
            ELSE Outcome(TRUE, f1, b)
    ELSE IF action.op = "move" THEN
        LET r1 == IF Exists(f, action.dst)
                      THEN LET m == Place(f[action.dst], f, action.path)
                           IN  [ok |-> m.ok,
                                fs |-> IF m.ok THEN Remove(m.fs, action.dst) ELSE f]
                  ELSE [ok |-> TRUE, fs |-> f]
        IN  IF ~r1.ok THEN Outcome(FALSE, r1.fs, b)
            ELSE IF action.backup # 0 THEN
                LET r == safe_move(r1.fs, b, action.backup, action.dst)
                IN  Outcome(r.ok, r.fs, r.backups)
            ELSE Outcome(TRUE, r1.fs, b)
    ELSE Outcome(FALSE, f, b)

\* a redo that changes nothing on disk
RedoStepMutantNothing(action, f, b) == Outcome(TRUE, f, b)

RedoStep(action, f, b) ==
    IF action.op = "mk_file" THEN
        \* best effort: an empty file, and only when the path is absent
        Outcome(TRUE, IF Exists(f, action.path) THEN f
                      ELSE [f EXCEPT ![action.path] = File("")], b)
    ELSE IF action.op = "mk_dir" THEN
        \* mkdir(exist_ok=True) raises on an existing file
        IF f[action.path].kind = "file" THEN Outcome(FALSE, f, b)
        ELSE Outcome(TRUE, IF Exists(f, action.path) THEN f
                           ELSE [f EXCEPT ![action.path] = Dir("")], b)
    ELSE IF action.op = "dlt" THEN
        Outcome(TRUE, Remove(f, action.path), b)
    ELSE IF action.op = "cpy" THEN
        IF ~Exists(f, action.path) THEN Outcome(TRUE, f, b)
        ELSE IF IsDir(f, action.path) THEN
            \* shutil.copytree raises when the destination exists
            IF Exists(f, action.dst) THEN Outcome(FALSE, f, b)
            ELSE Outcome(TRUE, [f EXCEPT ![action.dst] = f[action.path]], b)
        ELSE LET r == Place(f[action.path], f, action.dst)
             IN  Outcome(r.ok, r.fs, b)
    ELSE IF action.op = "move" THEN
        IF ~Exists(f, action.path) THEN Outcome(TRUE, f, b)
        ELSE LET r == Place(f[action.path], f, action.dst)
             IN  Outcome(r.ok, IF r.ok THEN Remove(r.fs, action.path) ELSE f, b)
    ELSE Outcome(FALSE, f, b)

\* the pop and append that open undo and redo: Moved(from, to) is the pair
\* of stacks after the record on top of `from` went on top of `to`
MovedMutantBottom(from, to) ==
    [from |-> Tail(from), to |-> Append(to, Head(from)), action |-> Head(from)]

Moved(from, to) ==
    [from |-> SubSeq(from, 1, Len(from) - 1), to |-> Append(to, from[Len(from)]),
     action |-> from[Len(from)]]

\* "Nothing to undo" / "Nothing to redo": report, set the status, return
NothingToDoMutantStatus(op) ==
    /\ last' = 0
    /\ jlast' = JLast(op, NoRec)
    /\ run' = NoRun
    /\ cyc' = NoCyc
    /\ UNCHANGED <<fs, backups, undo_stack, redo_stack, ncmds, pushed, touched>>

NothingToDo(op) ==
    /\ last' = 1
    /\ jlast' = JLast(op, NoRec)
    /\ run' = NoRun
    /\ cyc' = NoCyc
    /\ UNCHANGED <<fs, backups, undo_stack, redo_stack, ncmds, pushed, touched>>

\* Commands.undo
undo ==
    IF undo_stack = <<>> THEN NothingToDo("undo")
    ELSE
        LET m == Moved(undo_stack, redo_stack)
            o == UndoStep(m.action, fs, backups)
        IN  /\ undo_stack' = m.from
            /\ redo_stack' = m.to
            /\ fs' = o.fs
            /\ backups' = o.backups
            /\ last' = IF o.ok THEN 0 ELSE 1
            /\ jlast' = JLast("undo", m.action)
            /\ run' = RunAfterUndo
            /\ cyc' = CycAfterUndo
            /\ touched' = TRUE
            /\ pushed' = <<>>
            /\ UNCHANGED ncmds

\* Commands.redo
redo ==
    IF redo_stack = <<>> THEN NothingToDo("redo")
    ELSE
        LET m == Moved(redo_stack, undo_stack)
            o == RedoStep(m.action, fs, backups)
        IN  /\ redo_stack' = m.from
            /\ undo_stack' = m.to
            /\ fs' = o.fs
            /\ backups' = o.backups
            /\ last' = IF o.ok THEN 0 ELSE 1
            /\ jlast' = JLast("redo", m.action)
            /\ run' = RunAfterRedo
            /\ cyc' = CycAfterRedo(o.fs, m.to, m.from)
            /\ touched' = TRUE
            /\ pushed' = <<>>
            /\ UNCHANGED ncmds

\* GlobalCleaner.cnf, step 4 (the same in gbc, and in sns before the new
\* script runs): both stacks are cleared; the backups stay where they are
clear_journal(op) ==
    /\ undo_stack' = <<>>
    /\ redo_stack' = <<>>
    /\ last' = 0
    /\ jlast' = JLast(op, NoRec)
    /\ run' = NoRun
    /\ cyc' = NoCyc
    /\ touched' = TRUE
    /\ pushed' = <<>>
    /\ UNCHANGED <<fs, backups, ncmds>>

(***************************************************************************)
(* The journal as a state machine: a session issues the journaled          *)
(* commands, undo and redo in any order.                                   *)
(***************************************************************************)
\* what a path may hold when the session starts
InitNodes == {NoNode, File("b"), Dir("t")}
\* the content argument of mk file
MkContents == {"", "a"}

\* a session starts in a directory where at least one of the paths is free
InitFilesystems == {f \in [Paths -> InitNodes] : \E p \in Paths : f[p] = NoNode}

JournalInit ==
    /\ fs \in InitFilesystems
    /\ backups = <<>>
    /\ undo_stack = <<>>
    /\ redo_stack = <<>>
    /\ last = 0
    /\ ncmds = 0
    /\ pushed = <<>>
    /\ jlast = [op |-> "", rec |-> NoRec, nredo |-> 0]
    /\ touched = FALSE
    /\ run = NoRun
    /\ cyc = NoCyc

InterpreterIdle == UNCHANGED ivars

JMkDir == (\E path \in Paths : mk_dir(path)) /\ InterpreterIdle /\ StoreIdle /\ TextIdle
JMkFile == (\E path \in Paths, content \in MkContents : mk_file(path, content)) /\ InterpreterIdle /\ StoreIdle /\ TextIdle
JCpy == (\E src \in Paths, dst \in Paths : src # dst /\ cpy(src, dst)) /\ InterpreterIdle /\ StoreIdle /\ TextIdle
JDlt == (\E path \in Paths : dlt(path)) /\ InterpreterIdle /\ StoreIdle /\ TextIdle
JMove == (\E src \in Paths, dst \in Paths : src # dst /\ move(src, dst)) /\ InterpreterIdle /\ StoreIdle /\ TextIdle
JWrt == (\E path \in Paths : wrt(path)) /\ InterpreterIdle /\ StoreIdle /\ TextIdle
JCnf == clear_journal("cnf") /\ InterpreterIdle /\ StoreIdle /\ TextIdle
JUndo == undo /\ InterpreterIdle /\ StoreIdle /\ TextIdle
JRedo == redo /\ InterpreterIdle /\ StoreIdle /\ TextIdle

JournalNext ==
    \/ JMkDir
    \/ JMkFile
    \/ JCpy
    \/ JDlt
    \/ JMove
    \/ JWrt
    \/ JCnf
    \/ JUndo
    \/ JRedo


(***************************************************************************)
(* The interpreter.  A line is the sequence of its tokens (the result of   *)
(* strip and tokenize); a buffer is a sequence of lines.                   *)
(***************************************************************************)
\* int(tok) for the number tokens of the model; NotInt when int() raises
NotInt == 0 - 1000
ParseInt(tok) ==
    CASE tok = "0" -> 0
      [] tok = "1" -> 1
      [] tok = "2" -> 2
      [] tok = "3" -> 3
      [] tok = "4" -> 4
      [] tok = "5" -> 5
      [] tok = "05" -> 5
      [] tok = "-1" -> 0 - 1
      [] OTHER -> NotInt

\* os.environ, restricted to the names the model looks up
environ == [n \in {"E"} |-> "1"]

\* State.variables.get(name, os.environ.get(name, default))
Lookup(vs, name, default) ==
    IF name \in DOMAIN vs THEN vs[name]
    ELSE IF name \in DOMAIN environ THEN environ[name]
    ELSE default

\* TextProcessor.expand_vars_in_string for the tokens of the model: the
\* tokens "$x", "$E" and "$u" are variable references, every other token of
\* the model has no "$" and no backslash and is returned as it is
ExpandVarsInString(vs, tok) ==
    CASE tok = "$x" -> Lookup(vs, "x", "")
      [] tok = "$E" -> Lookup(vs, "E", "")
      [] tok = "$u" -> Lookup(vs, "u", "")
      [] OTHER -> tok

HasDollar(tok) == tok \in {"$x", "$E", "$u"}

\* the token loop of TextProcessor.expand_aliases_and_vars (no alias
\* defined): a "$" token is scanned, a token that is a variable name is
\* replaced by its value; joining and tokenizing again drops empty tokens
ExpandToken(vs, tok) ==
    IF HasDollar(tok) THEN ExpandVarsInString(vs, tok)
    ELSE IF tok \in DOMAIN vs THEN vs[tok]
    ELSE tok

NonEmpty(tok) == tok # ""

expand_aliases_and_vars(vs, tokens) ==
    SelectSeq([i \in 1..Len(tokens) |-> ExpandToken(vs, tokens[i])], NonEmpty)

\* the first-token loop of expand_aliases_and_vars: up to
\* ALIAS_RECURSION_LIMIT further substitutions of the first token
RECURSIVE AliasLoop(_, _, _)
AliasLoop(als, tokens, n) ==
    IF n = 0 \/ tokens = <<>> \/ tokens[1] \notin DOMAIN als THEN tokens
    ELSE AliasLoop(als, als[tokens[1]] \o Tail(tokens), n - 1)

\* TextProcessor.expand_aliases_and_vars with aliases defined: the line
\* the loop ends with is expanded by a recursive call, whatever its first
\* token is; Python raises RecursionError at its recursion limit
RECURSIVE ExpandLine(_, _, _, _)
ExpandLine(als, vs, tokens, depth) ==
    IF depth > RecursionLimit THEN [raised |-> TRUE, tokens |-> tokens]
    ELSE IF tokens # <<>> /\ tokens[1] \in DOMAIN als
        THEN ExpandLine(als, vs,
                        AliasLoop(als, als[tokens[1]] \o Tail(tokens),
                                  ALIAS_RECURSION_LIMIT),
                        depth + 1)
    ELSE [raised |-> FALSE, tokens |-> expand_aliases_and_vars(vs, tokens)]

\* Interpreter.LABEL_RE on a stripped line: the label tokens of the model
\* are "L:" and "M:" (a label line is a label whatever follows the colon)
LabelName(tok) == CASE tok = "L:" -> "L" [] tok = "M:" -> "M" [] OTHER -> ""
IsLabel(line) == line # <<>> /\ LabelName(line[1]) # ""

\* Interpreter._build_label_map: a label maps to the index of the line after
\* its definition (indexes count from 0); a later definition overwrites
BuildLabelMapMutantFirstWins(lines) ==
    LET defs(n) == {j \in 1..Len(lines) : IsLabel(lines[j]) /\ LabelName(lines[j][1]) = n}
    IN  [n \in {LabelName(lines[j][1]) : j \in {k \in 1..Len(lines) : IsLabel(lines[k])}} |->
            CHOOSE j \in defs(n) : \A k \in defs(n) : k >= j]

_build_label_map(lines) ==
    LET defs(n) == {j \in 1..Len(lines) : IsLabel(lines[j]) /\ LabelName(lines[j][1]) = n}
    IN  [n \in {LabelName(lines[j][1]) : j \in {k \in 1..Len(lines) : IsLabel(lines[k])}} |->
            CHOOSE j \in defs(n) : \A k \in defs(n) : k <= j]

\* l.startswith(kw) on a stripped line, for the keywords of the model
StartsWith(line, kw) == line # <<>> /\ line[1] = kw

\* Interpreter._collect_block: the lines after start_index up to the
\* matching end_kw, counting nested openers; found is FALSE when the end of
\* the buffer is reached first (SigilError).  Indexes count from 0.
RECURSIVE CollectFrom(_, _, _, _, _, _)
CollectFrom(lines, i, depth, block, start_kw, end_kw) ==
    IF i >= Len(lines) THEN [found |-> FALSE, block |-> block, end_idx |-> i]
    ELSE LET l == lines[i + 1]
         IN  IF StartsWith(l, start_kw)
                 THEN CollectFrom(lines, i + 1, depth + 1, Append(block, l), start_kw, end_kw)
             ELSE IF l = <<end_kw>>
                 THEN IF depth = 0 THEN [found |-> TRUE, block |-> block, end_idx |-> i]
                      ELSE CollectFrom(lines, i + 1, depth - 1, Append(block, l),
                                       start_kw, end_kw)
             ELSE CollectFrom(lines, i + 1, depth, Append(block, l), start_kw, end_kw)

_collect_block(lines, start_index, start_kw, end_kw) ==
    CollectFrom(lines, start_index + 1, 0, <<>>, start_kw, end_kw)

\* the when/else scan of the case handling in run_lines
IsWhen(l) == Len(l) >= 2 /\ l[1] = "when"
IsElse(l) == l = <<"else">>
InSeq(x, s) == \E k \in 1..Len(s) : s[k] = x

\* the body lines from j up to the next when or else line (or the end)
RECURSIVE BodyEnd(_, _)
BodyEnd(block, j) ==
    IF j >= Len(block) THEN j
    ELSE IF IsWhen(block[j + 1]) \/ IsElse(block[j + 1]) THEN j
    ELSE BodyEnd(block, j + 1)

RECURSIVE CaseScanMutantLastMatch(_, _, _, _)
CaseScanMutantLastMatch(block, i, var_value, chosen) ==
    IF i >= Len(block) THEN [chosen |-> chosen, else_block |-> <<>>]
    ELSE LET l == block[i + 1]
         IN  IF IsWhen(l)
                 THEN LET j == BodyEnd(block, i + 1)
                          buff == SubSeq(block, i + 2, j)
                      IN  IF InSeq(var_value, Tail(l))
                              THEN CaseScanMutantLastMatch(block, j, var_value, buff)
                          ELSE CaseScanMutantLastMatch(block, j, var_value, chosen)
             ELSE IF IsElse(l)
                 THEN [chosen |-> chosen, else_block |-> SubSeq(block, i + 2, Len(block))]
             ELSE CaseScanMutantLastMatch(block, i + 1, var_value, chosen)

RECURSIVE CaseScan(_, _, _, _)
CaseScan(block, i, var_value, chosen) ==
    IF i >= Len(block) THEN [chosen |-> <<>>, else_block |-> <<>>]
    ELSE LET l == block[i + 1]
         IN  IF IsWhen(l)
                 THEN LET j == BodyEnd(block, i + 1)
                          buff == SubSeq(block, i + 2, j)
                      IN  IF InSeq(var_value, Tail(l))
                              THEN [chosen |-> buff, else_block |-> <<>>]
                          \* the scan goes on behind the body, at the value of j
                          ELSE CHOOSE r \in {CaseScan(block, jj, var_value, chosen) :
                                                 jj \in {j}} : TRUE
             ELSE IF IsElse(l)
                 THEN [chosen |-> <<>>, else_block |-> SubSeq(block, i + 2, Len(block))]
             ELSE CaseScan(block, i + 1, var_value, chosen)

\* the body that the case construct runs (empty: none)
chosen_block(block, var_value) ==
    LET r == CaseScan(block, 0, var_value, <<>>)
    IN  IF r.chosen = <<>> /\ r.else_block # <<>> THEN r.else_block ELSE r.chosen

\* str(n) for the integers of the model
IntStr(n) ==
    CASE n = 0 -> "0"
      [] n = 1 -> "1"
      [] n = 2 -> "2"
      [] n = 3 -> "3"
      [] n = 4 -> "4"
      [] n = 5 -> "5"
      [] OTHER -> "-1"

\* the condition of `if <cond> then <command>`: cond_tokens are the tokens
\* between `if` and `then`.  The right operand is one token in the model.
cond_ok(vs, cond_tokens) ==
    IF Len(cond_tokens) = 1 THEN ExpandVarsInString(vs, cond_tokens[1]) # ""
    ELSE IF Len(cond_tokens) = 3 THEN
        LET left == ExpandVarsInString(vs, cond_tokens[1])
            op == cond_tokens[2]
            right == ExpandVarsInString(vs, cond_tokens[3])
            ln == ParseInt(left)
            rn == ParseInt(right)
        IN  IF op \in {"==", "="} THEN left = right
            ELSE IF op = "!=" THEN left # right
            ELSE IF op \in {"<", ">", "<=", ">="} THEN
                IF ln = NotInt \/ rn = NotInt THEN FALSE
                ELSE CASE op = "<" -> ln < rn
                       [] op = ">" -> ln > rn
                       [] op = "<=" -> ln <= rn
                       [] OTHER -> ln >= rn
            ELSE FALSE
    ELSE FALSE

\* the position of the first "then" among the tokens (0: none)
RECURSIVE IndexOf(_, _, _)
IndexOf(tokens, tok, k) ==
    IF k > Len(tokens) THEN 0
    ELSE IF tokens[k] = tok THEN k
    ELSE IndexOf(tokens, tok, k + 1)

(***************************************************************************)
(* State.functions and the script files that `run` can read.               *)
(***************************************************************************)
Say(w) == <<"say", w>>
Exit3 == <<"exit", "3">>
Mk == <<"mk", "file", "f">>

functions ==
    [n \in {"fx", "fb", "fe", "fr", "fk"} |->
        CASE n = "fx" -> <<Say("f1"), Exit3, Say("f2")>>
          [] n = "fb" -> <<Say("f1"), <<"brk">>, Say("f2")>>
          [] n = "fe" -> <<Say("f1"), Mk, Say("f2")>>
          [] n = "fr" -> <<Say("f1"), <<"run", "sx">>, Say("f2")>>
          \* a body whose stored commands begin with control keywords
          [] OTHER -> <<<<"goto", "L">>, <<"rpt", "2", "say", "f1">>,
                        <<"if", "1", "==", "1", "then", "say", "f1">>, <<"case", "E">>,
                        Say("f2")>>]

scripts ==
    [n \in {"sx", "sf", "sb", "sn"} |->
        CASE n = "sx" -> <<Say("s1"), <<"exit">>, Say("s2")>>
          [] n = "sf" -> <<<<"rpt", "2">>, <<"clf", "fx">>, <<"endrpt">>, Say("s2")>>
          [] n = "sb" -> <<Say("s1"), <<"brk">>, Say("s2")>>
          [] OTHER -> <<Say("s1")>>]

\* the .sig files `sns` can start: the scripts above, and one whose `if`
\* line lets the exception of its command leave run_lines
sig_scripts ==
    [n \in {"sx.sig", "sf.sig", "sb.sig", "sn.sig", "se.sig"} |->
        CASE n = "sx.sig" -> scripts["sx"]
          [] n = "sf.sig" -> scripts["sf"]
          [] n = "sb.sig" -> scripts["sb"]
          [] n = "sn.sig" -> scripts["sn"]
          [] OTHER -> <<Say("s1"), <<"if", "1", "==", "1", "then", "mk", "file", "f">>,
                        Say("s2")>>]

(***************************************************************************)
(* Frames and events.                                                      *)
(***************************************************************************)
\* kind "lines": an activation of run_lines over `lines` with cursor `index`
\* kind "clf":   FunctionCommands.clf over the stored commands `lines`
\* kind "rpt":   the loop of a rpt line: `left` iterations to go (-1: inf),
\*               `end_idx` the cursor of the enclosing buffer after the loop
\* kind "case":  the try block around the chosen body of a case
\* kind "run":   Commands.run around the run_lines of a script
\* kind "sns":   ScriptCommands.sns around the run_lines of the new script
\* kind "main":  main() around the run_lines of the script file
Frame(kind, lines, index, left, end_idx) ==
    [kind |-> kind, lines |-> lines, index |-> index, left |-> left, end_idx |-> end_idx]

LinesFrame(lines) == Frame("lines", lines, 0, 0, 0)

Top == stack[Len(stack)]
Below == SubSeq(stack, 1, Len(stack) - 1)
WithTop(stk, f) == [stk EXCEPT ![Len(stk)] = f]
\* the stack with the cursor of its top frame set to i
AtIndex(stk, i) == WithTop(stk, [stk[Len(stk)] EXCEPT !.index = i])
Advanced(stk) == AtIndex(stk, stk[Len(stk)].index + 1)

\* the line under the cursor of the top frame
Cur == Top.lines[Top.index + 1]

\* events of the history
Exec(tokens, out) == [t |-> "exec", cmd |-> tokens, out |-> out]
Report(what) == [t |-> "report", cmd |-> <<what>>, out |-> ""]
Iter == [t |-> "iter", cmd |-> <<>>, out |-> ""]
Jump(tokens) == [t |-> "goto", cmd |-> tokens, out |-> "jump"]

Running == status = "running"
JournalIdle == UNCHANGED jvars

(***************************************************************************)
(* Dispatch: the body of Interpreter._execute_line after expansion, called *)
(* by a frame of kind "lines" or "clf" for the command under its cursor.   *)
(* A handler returns (the caller's cursor advances), raises (the signal is *)
(* set and the frames unwind) or calls run_lines (frames are pushed).      *)
(***************************************************************************)
Returns(l, vs, tr) ==
    /\ stack' = Advanced(stack)
    /\ ilast' = l
    /\ variables' = vs
    /\ trace' = tr
    /\ UNCHANGED <<signal, status, exit_code, prog>>
    /\ StoreIdle /\ TextIdle

Raises(sig, l, code, tr) ==
    /\ signal' = sig
    /\ ilast' = l
    /\ exit_code' = code
    /\ trace' = tr
    /\ UNCHANGED <<stack, status, variables, prog>>
    /\ StoreIdle /\ TextIdle

Calls(frames, tr) ==
    /\ stack' = stack \o frames
    /\ trace' = tr
    /\ UNCHANGED <<signal, status, exit_code, ilast, variables, prog>>
    /\ StoreIdle /\ TextIdle


\* the exit codes a command that is not in the registry can end with
ExternalRc == {127}

\* Commands.exit_cmd: the requested code
ExitCode(args) ==
    IF args = <<>> THEN 0
    ELSE IF ParseInt(args[1]) = NotInt THEN 1
    ELSE ParseInt(args[1])

\* Commands.let for `let <name> = <value>` and `let <name> <value>`, the
\* value being one token: a number is stored as the number it parses to
LetValue(vs, args) ==
    LET raw == IF Len(args) = 1 THEN ""
               ELSE IF Len(args) >= 3 /\ args[2] = "=" THEN args[3]
               ELSE args[2]
        expanded == ExpandVarsInString(vs, raw)
    IN  IF ParseInt(expanded) # NotInt THEN IntStr(ParseInt(expanded)) ELSE expanded

Assign(vs, name, value) ==
    [n \in DOMAIN vs \cup {name} |-> IF n = name THEN value ELSE vs[n]]

EmptyVars == [n \in {} |-> ""]
RECURSIVE Flatten(_)
Flatten(ss) == IF ss = <<>> THEN <<>> ELSE Head(ss) \o Flatten(Tail(ss))

(***************************************************************************)
(* The definition commands (alia, let, unset, ask, fnc, export, prof).  A  *)
(* handler is an operator on T, the record of the State tables and the rc  *)
(* files, so that RCManager.load replays the lines of an rc file through   *)
(* the same handlers.  The text of an alias or a function is the sequence  *)
(* of its tokens; a stored value is the string str() makes of it.          *)
(***************************************************************************)
Tables ==
    [aliases |-> aliases, variables |-> variables, readonly_vars |-> readonly_vars,
     exported_vars |-> exported_vars, functions |-> user_functions,
     current_profile |-> current_profile, rc |-> rc_files, environ |-> os_environ]

\* the names the model can store, in the order sorted() gives them
NameOrder ==
    <<"0", "1", "127", "5", "LAST", "LAST_EXIT", "PATH", "a", "b", "c", "f", "g", "h",
      "last", "q", "s", "w", "x", "z">>
Sorted(S) == SelectSeq(NameOrder, LAMBDA n : n \in S)

Without(f, name) == [n \in DOMAIN f \ {name} |-> f[n]]

StatusNames == {"last", "LAST", "LAST_EXIT"}

set_last_exit(T, code) ==
    [T EXCEPT !.variables =
        [n \in DOMAIN T.variables \cup StatusNames |->
            IF n \in StatusNames THEN code ELSE T.variables[n]]]

\* " nxt ".join(commands), as tokens
RECURSIVE JoinNxt(_)
JoinNxt(commands) ==
    IF commands = <<>> THEN <<>>
    ELSE IF Len(commands) = 1 THEN commands[1]
    ELSE commands[1] \o <<"nxt">> \o JoinNxt(Tail(commands))

\* the lines RCManager.save writes (the comment lines left out)
RcLines(T) ==
    LET A == Sorted(DOMAIN T.aliases)
        V == Sorted(DOMAIN T.variables)
        F == Sorted(DOMAIN T.functions)
        E == Sorted(T.exported_vars)
    IN  [i \in 1..Len(A) |-> <<"alia", A[i]>> \o T.aliases[A[i]]]
        \o [i \in 1..Len(V) |->
               <<"let">> \o (IF V[i] \in T.readonly_vars THEN <<"-r">> ELSE <<>>)
                \o <<V[i], "=",
                     IF T.variables[V[i]] = "" THEN "\"\"" ELSE T.variables[V[i]]>>]
        \o [i \in 1..Len(F) |-> <<"fnc", F[i]>> \o JoinNxt(T.functions[F[i]])]
        \o [i \in 1..Len(E) |-> <<"export", E[i]>>]

save(T) == [T EXCEPT !.rc = Assign(T.rc, T.current_profile, RcLines(T))]

\* `if not State.loading_rc: RCManager.save()`
Saved(T, loading_rc) == IF loading_rc THEN T ELSE save(T)

\* the value Commands.let stores: a quoted empty value is the empty string
StoredValue(vs, args) ==
    IF LetValue(vs, args) = "\"\"" THEN "" ELSE LetValue(vs, args)

HasFlag(args) == args # <<>> /\ args[1] = "-r"

let(T, flagged, loading_rc) ==
    LET readonly == HasFlag(flagged)
        args == IF readonly THEN Tail(flagged) ELSE flagged
    IN  IF args = <<>> THEN set_last_exit(T, "1")
        ELSE IF args[1] \in T.readonly_vars /\ ~readonly THEN set_last_exit(T, "1")
        ELSE set_last_exit(
                 Saved([T EXCEPT
                           !.variables = Assign(@, args[1], StoredValue(@, args)),
                           !.readonly_vars = IF readonly THEN @ \cup {args[1]}
                                             ELSE @ \ {args[1]}],
                       loading_rc),
                 "0")

unset(T, args, loading_rc) ==
    IF args = <<>> THEN set_last_exit(T, "1")
    ELSE IF args[1] \notin DOMAIN T.variables THEN set_last_exit(T, "1")
    ELSE IF args[1] \in T.readonly_vars THEN set_last_exit(T, "1")
    ELSE set_last_exit(
             Saved([T EXCEPT !.variables = Without(@, args[1]),
                             !.exported_vars = @ \ {args[1]}],
                   loading_rc),
             "0")

\* Commands.ask: entered is what input() returns
ask(T, args, entered) ==
    IF args = <<>> THEN set_last_exit(T, "1")
    ELSE IF args[1] = "=" /\ Len(args) < 2 THEN set_last_exit(T, "1")
    ELSE LET name == IF args[1] = "=" THEN args[2] ELSE args[1]
         IN  set_last_exit([T EXCEPT !.variables = Assign(@, name, entered)], "0")

alia(T, args, loading_rc) ==
    IF args = <<>>
        THEN set_last_exit(T, IF DOMAIN T.aliases = {} THEN "1" ELSE "0")
    ELSE IF Len(args) >= 2
        THEN set_last_exit(
                 Saved([T EXCEPT !.aliases = Assign(@, args[1], Tail(args))],
                       loading_rc),
                 "0")
    ELSE set_last_exit(T, "1")

unalia(T, args, loading_rc) ==
    IF args = <<>> THEN set_last_exit(T, "1")
    ELSE IF args[1] \in DOMAIN T.aliases
        THEN set_last_exit(
                 Saved([T EXCEPT !.aliases = Without(@, args[1])], loading_rc), "0")
    ELSE set_last_exit(T, "1")

\* str.split("nxt") on one word of the model: the separator is cut out
\* wherever the three letters stand, also inside a longer word
Sep == "|"
SplitNxt(tok) ==
    CASE tok = "nxt" -> <<Sep>>
      [] tok = "nxtra" -> <<Sep, "ra">>
      [] OTHER -> <<tok>>

\* the commands between the separators, the empty ones dropped
RECURSIVE CutAt(_, _, _)
CutAt(items, sep, current) ==
    IF items = <<>> THEN (IF current = <<>> THEN <<>> ELSE <<current>>)
    ELSE IF Head(items) = sep
        THEN (IF current = <<>> THEN <<>> ELSE <<current>>) \o CutAt(Tail(items), sep, <<>>)
    ELSE CutAt(Tail(items), sep, Append(current, Head(items)))

\* Commands.fnc: rest is joined, split at "nxt" and each part stripped
fnc(T, args, loading_rc) ==
    LET commands == CutAt(Flatten([i \in 1..(Len(args) - 1) |-> SplitNxt(args[i + 1])]),
                          Sep, <<>>)
    IN  IF Len(args) < 3 THEN set_last_exit(T, "1")
        ELSE IF commands = <<>> THEN set_last_exit(T, "1")
        ELSE set_last_exit(
                 Saved([T EXCEPT !.functions = Assign(@, args[1], commands)], loading_rc),
                 "0")

\* an export that leaves the process environment alone
exportMutantNoMirror(T, args, loading_rc) ==
    IF args = <<>> THEN set_last_exit(T, "1")
    ELSE IF args[1] \notin DOMAIN T.variables THEN set_last_exit(T, "1")
    ELSE set_last_exit(Saved([T EXCEPT !.exported_vars = @ \cup {args[1]}], loading_rc),
                       "0")

\* Commands.export
export(T, args, loading_rc) ==
    IF args = <<>> THEN set_last_exit(T, "1")
    ELSE IF args[1] \notin DOMAIN T.variables THEN set_last_exit(T, "1")
    ELSE set_last_exit(
             Saved([T EXCEPT !.exported_vars = @ \cup {args[1]},
                             !.environ = Assign(@, args[1], T.variables[args[1]])],
                   loading_rc),
             "0")

\* GlobalCleaner.PROTECTED_VARS
PROTECTED_VARS ==
    {"last", "LAST", "LAST_EXIT", "PATH", "HOME", "USER", "USERNAME", "PWD", "OLDPWD",
     "OS", "OSTYPE", "HOSTNAME", "HOST", "SHELL", "TERM", "TEMP", "TMP", "TMPDIR",
     "LANG", "LC_ALL", "PROCESSOR_ARCHITECTURE", "NUMBER_OF_PROCESSORS",
     "COMPUTERNAME"}

\* a cleaner that deletes the readonly variables too
cnfMutantDeletesReadonly(T, loading_rc) ==
    LET deleted == DOMAIN T.variables \ PROTECTED_VARS
    IN  set_last_exit(
            Saved([T EXCEPT
                      !.variables = [n \in DOMAIN @ \ deleted |-> @[n]],
                      !.exported_vars = @ \ deleted,
                      !.environ = [n \in DOMAIN @ \ (deleted \cap T.exported_vars) |-> @[n]],
                      !.aliases = EmptyVars,
                      !.functions = EmptyVars],
                  loading_rc),
            "0")

\* GlobalCleaner.cnf, steps 1 to 3 and 5 (gbc after the confirmation is the
\* same): the variables that are neither protected nor readonly are
\* deleted, with their export; aliases and functions are cleared
cnf(T, loading_rc) ==
    LET deleted == DOMAIN T.variables \ (PROTECTED_VARS \cup T.readonly_vars)
    IN  set_last_exit(
            Saved([T EXCEPT
                      !.variables = [n \in DOMAIN @ \ deleted |-> @[n]],
                      !.exported_vars = @ \ deleted,
                      !.environ = [n \in DOMAIN @ \ (deleted \cap T.exported_vars) |-> @[n]],
                      !.aliases = EmptyVars,
                      !.functions = EmptyVars],
                  loading_rc),
            "0")

\* the value of PATH as the list of its directories, and back, for the
\* directories the model adds (d, and "d" with its quotes from the rc file)
PathList(value) ==
    CASE value = "" -> <<>>
      [] value = "d:\"d\"" -> <<"d", "\"d\"">>
      [] OTHER -> <<value>>

PathJoin(dirs) ==
    CASE dirs = <<>> -> ""
      [] Len(dirs) = 1 -> dirs[1]
      [] OTHER -> "d:\"d\""

\* PthCommands.add: the directory (created when missing) is appended to
\* PATH unless it is there; PATH is mirrored in the store and exported,
\* and the command is appended to the rc file
pth_add(T, args, loading_rc) ==
    LET current_paths == PathList(IF "PATH" \in DOMAIN T.environ THEN T.environ["PATH"]
                                  ELSE "")
        new_path == PathJoin(Append(current_paths, args[1]))
        added == [T EXCEPT !.environ = Assign(@, "PATH", new_path),
                           !.variables = Assign(@, "PATH", new_path),
                           !.exported_vars = @ \cup {"PATH"}]
    IN  IF args = <<>> THEN set_last_exit(T, "1")
        ELSE IF \E i \in 1..Len(current_paths) : current_paths[i] = args[1]
            THEN set_last_exit(T, "0")
        ELSE set_last_exit(
                 IF loading_rc THEN added
                 ELSE [added EXCEPT !.rc = Assign(@, T.current_profile,
                          (IF T.current_profile \in DOMAIN @ THEN @[T.current_profile]
                           ELSE <<>>) \o <<<<"pth", "add", "\"d\"">>>>)],
                 "0")

\* PthCommands.pth
pth(T, args, loading_rc) ==
    IF args = <<>> THEN set_last_exit(T, "1")
    ELSE IF args[1] = "add" THEN pth_add(T, Tail(args), loading_rc)
    ELSE set_last_exit(T, "1")

\* the tables after the clear() calls of a profile switch
Cleared(T, name) ==
    [T EXCEPT !.current_profile = name,
              !.aliases = EmptyVars,
              !.variables = EmptyVars,
              !.readonly_vars = {},
              !.exported_vars = {},
              !.functions = EmptyVars]

RcOf(T) ==
    IF T.current_profile \in DOMAIN T.rc THEN T.rc[T.current_profile] ELSE <<>>

RECURSIVE execute_line(_, _, _, _)

\* RCManager.load: run_lines over the lines of the rc file, with
\* State.loading_rc set (no line of an rc file starts with a control keyword)
RECURSIVE run_rc(_, _)
run_rc(T, lines) ==
    IF lines = <<>> THEN T
    ELSE run_rc(execute_line(T, Head(lines), TRUE, ""), Tail(lines))

load(T) == run_rc(T, RcOf(T))

\* Commands.prof without arguments (the list) and `prof <name>` (the
\* switch); a missing rc file is created with a comment line only
prof(T, args) ==
    IF args = <<>> THEN set_last_exit(T, "0")
    ELSE set_last_exit(load(Cleared(T, args[1])), "0")

\* one plain line of run_lines: expansion, then the handler; an exception
\* of either is reported by run_lines, which sets the status to 1
execute_line(T, raw, loading_rc, entered) ==
    LET e == ExpandLine(T.aliases, T.variables, raw, 1)
        cmd == e.tokens[1]
        args == Tail(e.tokens)
    IN  IF e.raised THEN set_last_exit(T, "1")
        ELSE IF e.tokens = <<>> THEN T
        ELSE CASE cmd = "let" -> let(T, args, loading_rc)
               [] cmd = "unset" -> unset(T, args, loading_rc)
               [] cmd = "ask" -> ask(T, args, entered)
               [] cmd = "alia" -> alia(T, args, loading_rc)
               [] cmd = "unalia" -> unalia(T, args, loading_rc)
               [] cmd = "fnc" -> fnc(T, args, loading_rc)
               [] cmd = "export" -> export(T, args, loading_rc)
               [] cmd = "prof" -> prof(T, args)
               [] cmd = "pth" -> pth(T, args, loading_rc)
               [] cmd = "say" -> set_last_exit(T, "0")
               [] OTHER -> set_last_exit(T, "127")

\* a handler that wrote the alias table and the rc file returns (the
\* status of the run is kept in ilast)
Defines(T, tr) ==
    /\ stack' = Advanced(stack)
    /\ ilast' = 0
    /\ aliases' = T.aliases
    /\ rc_files' = T.rc
    /\ trace' = tr
    /\ UNCHANGED <<signal, status, exit_code, variables, prog>>
    /\ UNCHANGED <<readonly_vars, exported_vars, user_functions, current_profile,
                   os_environ, nlines, ro_writes, slast>>
    /\ TextIdle

\* the handler of the command of a line
Dispatch(tokens) ==
    IF tokens = <<>> THEN Returns(ilast, variables, trace)
    ELSE
    LET cmd == tokens[1]
        args == Tail(tokens)
    IN  CASE cmd = "say" -> Returns(0, variables, Append(trace, Exec(tokens, "ok")))
          [] cmd = "mk" ->
                \/ Returns(0, variables, Append(trace, Exec(tokens, "ok")))
                \/ Raises("error", ilast, exit_code, Append(trace, Exec(tokens, "raise")))
          [] cmd = "let" ->
                IF args = <<>>
                    THEN Returns(1, variables, Append(trace, Exec(tokens, "ok")))
                ELSE Returns(0, Assign(variables, args[1], LetValue(variables, args)),
                             Append(trace, Exec(tokens, "ok")))
          [] cmd = "exit" ->
                Raises("exit", ExitCode(args), ExitCode(args),
                       Append(trace, Exec(tokens, "exit")))
          [] cmd = "brk" ->
                Raises("break", ilast, exit_code, Append(trace, Exec(tokens, "break")))
          [] cmd = "clf" ->
                IF args = <<>> \/ args[1] \notin DOMAIN functions
                    THEN Returns(1, variables, Append(trace, Exec(tokens, "ok")))
                ELSE Calls(<<Frame("clf", functions[args[1]], 0, 0, 0)>>,
                           Append(trace, Exec(tokens, "call")))
          [] cmd = "run" ->
                IF args = <<>> \/ args[1] \notin DOMAIN scripts
                    THEN Returns(1, variables, Append(trace, Exec(tokens, "ok")))
                ELSE Calls(<<Frame("run", <<>>, 0, 0, 0), LinesFrame(scripts[args[1]])>>,
                           Append(trace, Exec(tokens, "call")))
          [] cmd = "sns" ->
                \* no argument, no such file, or not a .sig file: status 1
                IF args = <<>> \/ args[1] \notin DOMAIN sig_scripts
                    THEN Returns(1, variables, Append(trace, Exec(tokens, "ok")))
                ELSE Calls(<<Frame("sns", <<>>, 0, 0, 0), LinesFrame(sig_scripts[args[1]])>>,
                           Append(trace, Exec(tokens, "call")))
          [] cmd = "case" -> Returns(1, variables, Append(trace, Exec(tokens, "ok")))
          [] cmd = "alia" ->
                IF Len(args) >= 2
                    THEN Defines(alia(Tables, args, FALSE),
                                 Append(trace, Exec(tokens, "ok")))
                ELSE Returns(1, variables, Append(trace, Exec(tokens, "ok")))
          [] OTHER ->
                \E rc \in ExternalRc :
                    Returns(rc, variables, Append(trace, Report("unknown command")))

(***************************************************************************)
(* Interpreter.run_lines: one action per kind of line under the cursor.    *)
(***************************************************************************)
AtLine == Running /\ signal = "none" /\ Top.kind = "lines" /\ Top.index < Len(Top.lines)

ControlKeywords == {"goto", "rpt", "case", "if", "brk"}

\* `cmd = tokens[0]` of run_lines: the first token of the line as it is
\* written, before any expansion
ControlWordMutantExpanded(line) ==
    LET e == ExpandLine(aliases, variables, line, 1)
    IN  IF e.raised \/ e.tokens = <<>> THEN "" ELSE e.tokens[1]

ControlWord(line) == line[1]

\* Interpreter._execute_line: the expansion, then the handler
ExecuteMutantGoto(tokens) ==
    LET e == ExpandLine(aliases, variables, tokens, 1)
        label_map == _build_label_map(Top.lines)
    IN  IF e.raised
            THEN Raises("error", ilast, exit_code, Append(trace, Exec(tokens, "raise")))
        ELSE IF /\ Len(e.tokens) >= 2 /\ e.tokens[1] = "goto"
                /\ e.tokens[2] \in DOMAIN label_map
            THEN /\ stack' = AtIndex(stack, label_map[e.tokens[2]])
                 /\ trace' = Append(trace, Jump(e.tokens))
                 /\ UNCHANGED <<signal, status, exit_code, ilast, variables, prog>>
                 /\ StoreIdle /\ TextIdle
        ELSE Dispatch(e.tokens)

Execute(tokens) ==
    LET e == ExpandLine(aliases, variables, tokens, 1)
    IN  IF e.raised
            THEN Raises("error", ilast, exit_code, Append(trace, Exec(tokens, "raise")))
        ELSE Dispatch(e.tokens)

\* the while loop ends: run_lines returns to its caller
ReturnLines ==
    /\ Running /\ signal = "none" /\ Top.kind = "lines"
    /\ Top.index >= Len(Top.lines)
    /\ stack' = Below
    /\ UNCHANGED <<signal, status, exit_code, ilast, variables, trace, prog>>
    /\ JournalIdle
    /\ StoreIdle /\ TextIdle

\* an empty line or a label definition is skipped
SkipLine ==
    /\ AtLine /\ (Cur = <<>> \/ IsLabel(Cur))
    /\ stack' = Advanced(stack)
    /\ UNCHANGED <<signal, status, exit_code, ilast, variables, trace, prog>>
    /\ JournalIdle
    /\ StoreIdle /\ TextIdle

\* a plain command line: expansion and dispatch
PlainLine ==
    /\ AtLine /\ Cur # <<>> /\ ~IsLabel(Cur) /\ ControlWord(Cur) \notin ControlKeywords
    /\ Execute(Cur)
    /\ JournalIdle

\* `goto <label>`: the cursor moves to the line after the label of this
\* buffer; an unknown label is reported.  MaxJumps bounds the jumps of a run.
IsJump(e) == e.t = "goto"
GotoLineMutantOuter ==
    /\ AtLine /\ Cur # <<>> /\ ControlWord(Cur) = "goto"
    /\ LET label_map == _build_label_map(stack[2].lines)
       IN  IF Len(Cur) >= 2 /\ Cur[2] \in DOMAIN label_map
               THEN /\ Len(SelectSeq(trace, IsJump)) < MaxJumps
                    /\ stack' = AtIndex(SubSeq(stack, 1, 2), label_map[Cur[2]])
                    /\ trace' = Append(trace, Jump(Cur))
                    /\ UNCHANGED ilast
           ELSE /\ stack' = Advanced(stack)
                /\ ilast' = 1
                /\ trace' = Append(trace, Report(IF Len(Cur) >= 2 THEN "label not found"
                                                 ELSE "goto requires a label"))
    /\ UNCHANGED <<signal, status, exit_code, variables, prog>>
    /\ JournalIdle
    /\ StoreIdle /\ TextIdle

GotoLine ==
    /\ AtLine /\ Cur # <<>> /\ ControlWord(Cur) = "goto"
    /\ LET label_map == _build_label_map(Top.lines)
       IN  IF Len(Cur) >= 2 /\ Cur[2] \in DOMAIN label_map
               THEN /\ Len(SelectSeq(trace, IsJump)) < MaxJumps
                    /\ stack' = AtIndex(stack, label_map[Cur[2]])
                    /\ trace' = Append(trace, Jump(Cur))
                    /\ UNCHANGED ilast
           ELSE /\ stack' = Advanced(stack)
                /\ ilast' = 1
                /\ trace' = Append(trace, Report(IF Len(Cur) >= 2 THEN "label not found"
                                                 ELSE "goto requires a label"))
    /\ UNCHANGED <<signal, status, exit_code, variables, prog>>
    /\ JournalIdle
    /\ StoreIdle /\ TextIdle

\* `brk` as the first token of a line
BrkLine ==
    /\ AtLine /\ Cur # <<>> /\ ControlWord(Cur) = "brk"
    /\ signal' = "break"
    /\ UNCHANGED <<stack, status, exit_code, ilast, variables, trace, prog>>
    /\ JournalIdle
    /\ StoreIdle /\ TextIdle

\* `if <cond> then <command>`
IfLine ==
    /\ AtLine /\ Cur # <<>> /\ ControlWord(Cur) = "if"
    /\ LET then_idx == IndexOf(Cur, "then", 1)
       IN  IF then_idx = 0
               THEN /\ stack' = Advanced(stack)
                    /\ ilast' = 1
                    /\ trace' = Append(trace, Report("malformed if"))
                    /\ UNCHANGED <<signal, status, exit_code, variables, prog>>
                    /\ StoreIdle /\ TextIdle
           ELSE IF cond_ok(variables, SubSeq(Cur, 2, then_idx - 1))
               THEN Execute(SubSeq(Cur, then_idx + 1, Len(Cur)))
           ELSE /\ stack' = Advanced(stack)
                /\ UNCHANGED <<signal, status, exit_code, ilast, variables, trace, prog>>
                /\ StoreIdle /\ TextIdle
    /\ JournalIdle

\* `rpt <count|inf> <command...>` (inline) and `rpt <count|inf>` ... `endrpt`
\* the count of a rpt line: Inf for `inf` (count = None), NotInt when int() raises
Inf == NotInt - 1
RptCountMutantOneMore(tok) ==
    IF tok = "inf" THEN Inf
    ELSE IF ParseInt(tok) = NotInt THEN NotInt
    ELSE ParseInt(tok) + 1

RptCount(tok) == IF tok = "inf" THEN Inf ELSE ParseInt(tok)

RptLine ==
    /\ AtLine /\ Cur # <<>> /\ ControlWord(Cur) = "rpt"
    /\ IF Len(Cur) = 1
           THEN /\ stack' = Advanced(stack)
                /\ ilast' = 1
                /\ trace' = Append(trace, Report("malformed rpt"))
       ELSE IF RptCount(Cur[2]) = NotInt
           THEN /\ stack' = Advanced(stack)
                /\ ilast' = 1
                /\ trace' = Append(trace, Report("invalid rpt count"))
       ELSE IF Len(Cur) >= 3
           THEN /\ stack' = Append(stack, Frame("rpt", <<SubSeq(Cur, 3, Len(Cur))>>, 0,
                                                RptCount(Cur[2]), Top.index + 1))
                /\ UNCHANGED <<ilast, trace>>
       ELSE LET b == _collect_block(Top.lines, Top.index, "rpt", "endrpt")
            IN  IF ~b.found
                    \* the error is reported and run_lines returns
                    THEN /\ stack' = AtIndex(stack, Len(Top.lines))
                         /\ ilast' = 1
                         /\ trace' = Append(trace, Report("missing endrpt"))
                ELSE /\ stack' = Append(stack, Frame("rpt", b.block, 0, RptCount(Cur[2]),
                                                     b.end_idx + 1))
                     /\ UNCHANGED <<ilast, trace>>
    /\ UNCHANGED <<signal, status, exit_code, variables, prog>>
    /\ JournalIdle
    /\ StoreIdle /\ TextIdle

\* the for/while loop of a rpt line: the next iteration, or the end
\* (`while True` for inf, `for _ in range(count)` otherwise)
RptNextMutantAgain(f) == f.left = Inf \/ f.left >= 0

RptNext(f) == f.left = Inf \/ f.left > 0

RptLoop ==
    /\ Running /\ signal = "none" /\ Top.kind = "rpt"
    /\ IF RptNext(Top)
           THEN /\ stack' = Append(WithTop(stack, [Top EXCEPT !.left =
                                       IF Top.left > 0 THEN Top.left - 1 ELSE Top.left]),
                                   LinesFrame(Top.lines))
                /\ trace' = Append(trace, Iter)
                /\ UNCHANGED ilast
       ELSE /\ stack' = AtIndex(Below, Top.end_idx)
            /\ ilast' = 0
            /\ UNCHANGED trace
    /\ UNCHANGED <<signal, status, exit_code, variables, prog>>
    /\ JournalIdle
    /\ StoreIdle /\ TextIdle

\* `case <varname>` ... `endcase`
CaseLine ==
    /\ AtLine /\ Cur # <<>> /\ ControlWord(Cur) = "case"
    /\ IF Len(Cur) < 2
           THEN /\ stack' = Advanced(stack)
                /\ ilast' = 1
                /\ trace' = Append(trace, Report("case requires a variable"))
       ELSE LET var_value == Lookup(variables, Cur[2], "")
                b == _collect_block(Top.lines, Top.index, "case", "endcase")
                chosen == chosen_block(b.block, var_value)
            IN  IF ~b.found
                    THEN /\ stack' = AtIndex(stack, Len(Top.lines))
                         /\ ilast' = 1
                         /\ trace' = Append(trace, Report("missing endcase"))
                ELSE IF chosen # <<>>
                    THEN /\ stack' = stack \o <<Frame("case", <<>>, 0, 0, b.end_idx + 1),
                                                LinesFrame(chosen)>>
                         /\ UNCHANGED <<ilast, trace>>
                ELSE /\ stack' = AtIndex(stack, b.end_idx + 1)
                     /\ UNCHANGED <<ilast, trace>>
    /\ UNCHANGED <<signal, status, exit_code, variables, prog>>
    /\ JournalIdle
    /\ StoreIdle /\ TextIdle

\* the chosen body of a case returned
CaseEnd ==
    /\ Running /\ signal = "none" /\ Top.kind = "case"
    /\ stack' = AtIndex(Below, Top.end_idx)
    /\ ilast' = 0
    /\ UNCHANGED <<signal, status, exit_code, variables, trace, prog>>
    /\ JournalIdle
    /\ StoreIdle /\ TextIdle

(***************************************************************************)
(* FunctionCommands.clf, Commands.run and main().                          *)
(***************************************************************************)
\* the next stored command of a function: it is expanded by clf and again
\* by _execute_line; past the last one the function is completed
ClfStep ==
    /\ Running /\ signal = "none" /\ Top.kind = "clf"
    /\ IF Top.index < Len(Top.lines)
           THEN LET e == ExpandLine(aliases, variables, Cur, 1)
                IN  IF e.raised
                        \* raised outside the try of clf: the caller gets it
                        THEN /\ stack' = Below
                             /\ signal' = "error"
                             /\ trace' = Append(trace, Exec(Cur, "raise"))
                             /\ UNCHANGED <<status, exit_code, ilast, variables, prog>>
                             /\ StoreIdle /\ TextIdle
                    ELSE Execute(e.tokens)
       ELSE /\ stack' = Advanced(Below)
            /\ ilast' = 0
            /\ UNCHANGED <<signal, status, exit_code, variables, trace, prog>>
            /\ StoreIdle /\ TextIdle
    /\ JournalIdle

\* the script of a `run` returned
RunEnd ==
    /\ Running /\ signal = "none" /\ Top.kind = "run"
    /\ stack' = Advanced(Below)
    /\ UNCHANGED <<signal, status, exit_code, ilast, variables, trace, prog>>
    /\ JournalIdle
    /\ StoreIdle /\ TextIdle

\* the script of a `sns` returned: sys.exit(last), raised inside the try
\* block of sns and raised again by its `except SystemExit`
SnsEnd ==
    /\ Running /\ signal = "none" /\ Top.kind = "sns"
    /\ stack' = Below
    /\ signal' = "exit"
    /\ exit_code' = ilast
    /\ trace' = Append(trace, Report("new script completed"))
    /\ UNCHANGED <<status, ilast, variables, prog>>
    /\ JournalIdle
    /\ StoreIdle /\ TextIdle

\* the script file of main() completed: sys.exit(last)
MainEnd ==
    /\ Running /\ signal = "none" /\ Top.kind = "main"
    /\ status' = "exited"
    /\ exit_code' = ilast
    /\ stack' = <<>>
    /\ UNCHANGED <<signal, ilast, variables, trace, prog>>
    /\ JournalIdle
    /\ StoreIdle /\ TextIdle

(***************************************************************************)
(* Exceptions: what the frame on top does with the signal in flight.       *)
(***************************************************************************)
\* the try block around a plain command line of run_lines catches an
\* error; every other line kind lets it pass, and so does a break or exit
LineCatchesMutantNever(f, sig) == FALSE

LineCatchesMutantBreak(f, sig) ==
    /\ sig \in {"error", "break"}
    /\ f.index < Len(f.lines)
    /\ f.lines[f.index + 1] # <<>>

LineCatches(f, sig) ==
    /\ sig = "error"
    /\ f.index < Len(f.lines)
    /\ f.lines[f.index + 1] # <<>>
    /\ f.lines[f.index + 1][1] \notin ControlKeywords

\* what a handler frame does with a signal: "catch" or "pass"
OnSignalMutantClfCatchesExit(kind, sig) ==
    CASE kind = "rpt" -> IF sig = "break" THEN "catch" ELSE "pass"
      [] kind = "case" -> IF sig = "break" THEN "catch" ELSE "pass"
      [] kind = "clf" -> "catch"
      [] kind = "run" -> IF sig = "exit" THEN "pass" ELSE "catch"
      [] kind = "sns" -> IF sig = "exit" THEN "pass" ELSE "catch"
      [] OTHER -> "catch"

OnSignalMutantCasePassesBreak(kind, sig) ==
    CASE kind = "rpt" -> IF sig = "break" THEN "catch" ELSE "pass"
      [] kind = "case" -> "pass"
      [] kind = "clf" -> IF sig = "exit" THEN "pass" ELSE "catch"
      [] kind = "run" -> IF sig = "exit" THEN "pass" ELSE "catch"
      [] kind = "sns" -> IF sig = "exit" THEN "pass" ELSE "catch"
      [] OTHER -> "catch"

OnSignalMutantClfPassesBreak(kind, sig) ==
    CASE kind = "rpt" -> IF sig = "break" THEN "catch" ELSE "pass"
      [] kind = "case" -> IF sig = "break" THEN "catch" ELSE "pass"
      [] kind = "clf" -> IF sig = "error" THEN "catch" ELSE "pass"
      [] kind = "run" -> IF sig = "exit" THEN "pass" ELSE "catch"
      [] kind = "sns" -> IF sig = "exit" THEN "pass" ELSE "catch"
      [] OTHER -> "catch"

OnSignalMutantRptPassesBreak(kind, sig) ==
    CASE kind = "rpt" -> "pass"
      [] kind = "case" -> IF sig = "break" THEN "catch" ELSE "pass"
      [] kind = "clf" -> IF sig = "exit" THEN "pass" ELSE "catch"
      [] kind = "run" -> IF sig = "exit" THEN "pass" ELSE "catch"
      [] kind = "sns" -> IF sig = "exit" THEN "pass" ELSE "catch"
      [] OTHER -> "catch"

OnSignal(kind, sig) ==
    CASE kind = "rpt" -> IF sig = "break" THEN "catch" ELSE "pass"
      [] kind = "case" -> IF sig = "break" THEN "catch" ELSE "pass"
      [] kind = "clf" -> IF sig = "exit" THEN "pass" ELSE "catch"
      [] kind = "run" -> IF sig = "exit" THEN "pass" ELSE "catch"
      [] kind = "sns" -> IF sig = "exit" THEN "pass" ELSE "catch"
      [] OTHER -> "catch"

\* an exception reaches a run_lines activation
UnwindLines ==
    /\ Running /\ signal # "none" /\ Top.kind = "lines"
    /\ IF LineCatches(Top, signal)
           THEN /\ stack' = Advanced(stack)
                /\ signal' = "none"
                /\ ilast' = 1
                /\ trace' = Append(trace, Report("error executing line"))
       ELSE /\ stack' = Below
            /\ UNCHANGED <<signal, ilast, trace>>
    /\ UNCHANGED <<status, exit_code, variables, prog>>
    /\ JournalIdle
    /\ StoreIdle /\ TextIdle

\* an exception reaches the loop of a rpt line: a break ends the loop
UnwindRpt ==
    /\ Running /\ signal # "none" /\ Top.kind = "rpt"
    /\ IF OnSignal("rpt", signal) = "catch"
           THEN /\ stack' = AtIndex(Below, Top.end_idx)
                /\ signal' = "none"
                /\ ilast' = 0
       ELSE /\ stack' = Below
            /\ UNCHANGED <<signal, ilast>>
    /\ UNCHANGED <<status, exit_code, variables, trace, prog>>
    /\ JournalIdle
    /\ StoreIdle /\ TextIdle

\* an exception reaches the try block of a case body: a break is dropped
UnwindCase ==
    /\ Running /\ signal # "none" /\ Top.kind = "case"
    /\ IF OnSignal("case", signal) = "catch"
           THEN /\ stack' = AtIndex(Below, Top.end_idx)
                /\ signal' = "none"
       ELSE /\ stack' = Below
            /\ UNCHANGED signal
    /\ UNCHANGED <<status, exit_code, ilast, variables, trace, prog>>
    /\ JournalIdle
    /\ StoreIdle /\ TextIdle

\* an exception reaches clf: a break completes the function (status 0), an
\* error ends it with status 1, an exit is raised again
UnwindClf ==
    /\ Running /\ signal # "none" /\ Top.kind = "clf"
    /\ IF OnSignal("clf", signal) = "catch"
           THEN /\ stack' = Advanced(Below)
                /\ signal' = "none"
                /\ ilast' = IF signal = "break" THEN 0 ELSE 1
                /\ trace' = Append(trace, Report(IF signal = "break" THEN "break in function"
                                                 ELSE "error in function"))
       ELSE /\ stack' = Below
            /\ UNCHANGED <<signal, ilast, trace>>
    /\ UNCHANGED <<status, exit_code, variables, prog>>
    /\ JournalIdle
    /\ StoreIdle /\ TextIdle

\* an exception reaches Commands.run: `except Exception` reports a script
\* error (a break is an Exception too); SystemExit passes
UnwindRun ==
    /\ Running /\ signal # "none" /\ Top.kind = "run"
    /\ IF OnSignal("run", signal) = "catch"
           THEN /\ stack' = Advanced(Below)
                /\ signal' = "none"
                /\ ilast' = 1
                /\ trace' = Append(trace, Report("script error"))
       ELSE /\ stack' = Below
            /\ UNCHANGED <<signal, ilast, trace>>
    /\ UNCHANGED <<status, exit_code, variables, prog>>
    /\ JournalIdle
    /\ StoreIdle /\ TextIdle

\* an exception reaches ScriptCommands.sns: SystemExit is raised again;
\* `except Exception` (a break is an Exception too) reports the failure,
\* sets the status to 1 and returns to the caller of sns
UnwindSns ==
    /\ Running /\ signal # "none" /\ Top.kind = "sns"
    /\ IF OnSignal("sns", signal) = "catch"
           THEN /\ stack' = Advanced(Below)
                /\ signal' = "none"
                /\ ilast' = 1
                /\ trace' = Append(trace, Report("failed to execute new script"))
       ELSE /\ stack' = Below
            /\ UNCHANGED <<signal, ilast, trace>>
    /\ UNCHANGED <<status, exit_code, variables, prog>>
    /\ JournalIdle
    /\ StoreIdle /\ TextIdle

\* an exception reaches main(): SystemExit ends the process with its code,
\* any other exception with 1
UnwindMain ==
    /\ Running /\ signal # "none" /\ Top.kind = "main"
    /\ status' = "exited"
    /\ exit_code' = IF signal = "exit" THEN exit_code ELSE 1
    /\ stack' = <<>>
    /\ signal' = "none"
    /\ UNCHANGED <<ilast, variables, trace, prog>>
    /\ JournalIdle
    /\ StoreIdle /\ TextIdle

(***************************************************************************)
(* Scenarios: the script buffers main() is started on.                     *)
(***************************************************************************)
\* longest buffer of plain commands
MaxLines == 2
\* largest count of a rpt line
MaxCount == 2
\* most when clauses of a case
MaxWhens == 2

SeqsUpTo(S, n) == UNION {[1..k -> S] : k \in 0..n}
RECURSIVE Repeat(_, _)
Repeat(s, n) == IF n <= 0 THEN <<>> ELSE s \o Repeat(s, n - 1)

Scenario(fam, lines, n, k, pre, post, x, whens, els) ==
    [fam |-> fam, lines |-> lines, n |-> n, k |-> k, pre |-> pre, post |-> post,
     x |-> x, whens |-> whens, els |-> els]

\* buffers of plain command lines (and empty lines)
PlainCmds == {Say("a"), Say("b"), Mk, <<>>}
PlainScenarios ==
    {Scenario("plain", ls, 0, 0, <<>>, <<>>, "", <<>>, <<>>) :
        ls \in SeqsUpTo(PlainCmds, MaxLines) \ {<<>>}}

\* a rpt block whose body raises break in its k-th iteration: a variable is
\* set in each of the iterations before
BreakBody(k, pre, post) ==
    CASE k = 1 -> pre \o <<<<"brk">>>> \o post
      [] k = 2 -> pre \o <<<<"if", "$x", "then", "brk">>, <<"let", "x", "=", "1">>>> \o post
      [] OTHER -> pre \o << <<"if", "$u", "then", "brk">>,
                            <<"if", "$x", "then", "let", "u", "=", "1">>,
                            <<"let", "x", "=", "1">> >> \o post

RptScenarios ==
    {Scenario("rpt",
              <<<<"rpt", IntStr(n)>>>> \o BreakBody(k, pre, post)
                  \o <<<<"endrpt">>, Say("c")>>,
              n, k, pre, post, "", <<>>, <<>>) :
        n \in 0..(MaxCount + 1), k \in 1..3,
        pre \in {<<>>, <<Say("a")>>}, post \in {<<>>, <<Say("b")>>}}

\* a rpt block inside a rpt block; the inner body raises break at once,
\* from a brk line or from the brk command of an `if`
InnerBreaks == {<<"brk">>, <<"if", "1", "==", "1", "then", "brk">>}
NestScenarios ==
    {Scenario("nest",
              <<<<"rpt", IntStr(m)>>>> \o pre
                  \o <<<<"rpt", IntStr(n)>>, Say("d"), b, Say("e"), <<"endrpt">>>>
                  \o post \o <<<<"endrpt">>, Say("c")>>,
              n, m, pre, post, "", <<b>>, <<>>) :
        n \in 1..MaxCount, m \in 1..MaxCount, b \in InnerBreaks,
        pre \in {<<>>, <<Say("a")>>}, post \in {<<>>, <<Say("b")>>}}

\* a command that calls or exits, inside zero, one or two blocks
Carriers ==
    {Exit3, <<"exit">>, <<"exit", "x">>, <<"if", "1", "==", "1", "then", "exit", "2">>,
     <<"rpt", "2", "exit", "1">>,
     <<"clf", "fx">>, <<"clf", "fr">>, <<"clf", "fb">>, <<"clf", "fe">>,
     <<"run", "sx">>, <<"run", "sf">>, <<"run", "sb">>, <<"run", "sn">>, <<"clf", "nofn">>}
Wraps == {"none", "rpt", "case"}
Wrap(w, body) ==
    CASE w = "rpt" -> <<<<"rpt", "2">>>> \o body \o <<<<"endrpt">>, Say("w")>>
      [] w = "case" -> <<<<"case", "E">>, <<"when", "0", "1">>>> \o body
                           \o <<<<"else">>, Say("n"), <<"endcase">>, Say("w")>>
      [] OTHER -> body
CallScenarios ==
    {Scenario("call", Wrap(w1, Wrap(w2, <<Say("a"), c, Say("b")>>)) \o <<Say("c")>>,
              0, 0, <<>>, <<>>, "", <<w1, w2>>, <<>>) :
        c \in Carriers, w1 \in Wraps, w2 \in Wraps}

\* a case block: the value of x (none: x is not set), when clauses with
\* their value lists and bodies, and an optional else
WhenValues == {<<"1">>, <<"2">>, <<"1", "2">>}
WhenName(i) == CASE i = 1 -> "w1" [] i = 2 -> "w2" [] i = 3 -> "w3" [] OTHER -> "w4"
Clauses == [vals : WhenValues, body : BOOLEAN]
ClauseLines(ws, i) ==
    <<<<"when">> \o ws[i].vals>> \o (IF ws[i].body THEN <<Say(WhenName(i))>> ELSE <<>>)
ElseLines(els) ==
    CASE els = "none" -> <<>>
      [] els = "empty" -> <<<<"else">>>>
      [] OTHER -> <<<<"else">>, Say("e")>>
CaseScenarios ==
    {Scenario("case",
              <<<<"case", "x">>>> \o Flatten([i \in 1..Len(ws) |-> ClauseLines(ws, i)])
                  \o ElseLines(els) \o <<<<"endcase">>, Say("c")>>,
              0, 0, <<>>, <<>>, x, ws, els) :
        x \in {"none", "1", "2", "3"}, ws \in SeqsUpTo(Clauses, MaxWhens),
        els \in {"none", "empty", "body"}}

\* a case whose executed body (of a when clause, or the else body) raises
\* break between two lines, inside a rpt block of n iterations (0: no rpt)
CaseBreakLines(els, b) ==
    IF els = "else"
        THEN <<<<"case", "E">>, <<"when", "0">>, Say("n"), <<"else">>, Say("d"), b, Say("e"),
               <<"endcase">>>>
    ELSE <<<<"case", "E">>, <<"when", "0", "1">>, Say("d"), b, Say("e"), <<"else">>, Say("n"),
           <<"endcase">>>>
CaseBreakScenarios ==
    {Scenario("casebrk",
              (IF n = 0 THEN pre \o CaseBreakLines(els, b) \o post
               ELSE <<<<"rpt", IntStr(n)>>>> \o pre \o CaseBreakLines(els, b) \o post
                        \o <<<<"endrpt">>>>) \o <<Say("c")>>,
              n, 0, pre, post, "", <<b>>, els) :
        n \in 0..MaxCount, b \in InnerBreaks, els \in {"when", "else"},
        pre \in {<<>>, <<Say("a")>>}, post \in {<<>>, <<Say("b")>>}}

\* buffers of labels, goto lines, and say lines that say their position
GotoLines(i) == {Say(IntStr(i)), <<"L:">>, <<"goto", "L">>, <<"goto", "M">>, <<>>}
GotoScenarios ==
    {Scenario("goto", ls, 0, 0, <<>>, <<>>, "", <<>>, <<>>) :
        ls \in UNION {{b \in [1..k -> UNION {GotoLines(i) : i \in 1..k}] :
                           \A i \in 1..k : b[i] \in GotoLines(i)} : k \in 1..MaxGotoLines}}

\* one or two `let x = <value>` lines, then `say $x`
LetValues == {"1", "2", "a"}
LetScenarios ==
    {Scenario("let", [i \in 1..Len(vs) |-> <<"let", "x", "=", vs[i]>>] \o <<Say("$x")>>,
              0, 0, <<>>, <<>>, "", vs, <<>>) :
        vs \in SeqsUpTo(LetValues, 2) \ {<<>>}}

\* a block opener without its closing line, followed by two say lines
Openers == {<<"rpt", "2">>, <<"case", "E">>}
UnbalancedScenarios ==
    {Scenario("unbalanced", pre \o <<o, Say("b"), Say("c")>>, 0, 0, pre, <<>>, "", <<o>>, <<>>) :
        o \in Openers, pre \in {<<>>, <<Say("a")>>}}

\* `if <condition> then <command>` followed by a say line: the command is a
\* mk that may raise ("iferr"), or `say t` under a condition of one or
\* three tokens ("cond"; x is "1" or undefined)
Operands == {"1", "2", "5", "05", "a", "b"}
Operators == {"==", "!=", "<", ">", "<=", ">="}
Conditions ==
    {<<l, op, r>> : l \in Operands, op \in Operators, r \in Operands}
        \cup {<<"$x">>, <<"a">>}
IfScenarios ==
    {Scenario("iferr", pre \o <<<<"if", "1", "==", "1", "then">> \o Mk, Say("b")>>,
              0, 0, pre, <<>>, "", <<>>, <<>>) : pre \in {<<>>, <<Say("a")>>}}
    \cup {Scenario("cond", <<<<"if">> \o c \o <<"then">> \o Say("t"), Say("c")>>,
                    0, 0, <<>>, <<>>, x, c, <<>>) : c \in Conditions, x \in {"none", "1"}}

\* a rpt block of n iterations whose body raises neither break nor exit
\* ("count"), and a rpt block whose body holds an inline rpt line ("inline")
CountBodies == SeqsUpTo({Say("a"), Say("b"), Mk}, MaxLines)
CountScenarios ==
    {Scenario("count", <<<<"rpt", IntStr(n)>>>> \o body \o <<<<"endrpt">>, Say("c")>>,
              n, 0, body, <<>>, "", <<>>, <<>>) :
        n \in (0 - 1)..(MaxCount + 1), body \in CountBodies}
    \cup {Scenario("inline",
                    <<<<"rpt", IntStr(n)>>>> \o pre \o <<<<"rpt", "2", "say", "d">>>>
                        \o post \o <<<<"endrpt">>, Say("c")>>,
                    n, 0, pre, post, "", <<>>, <<>>) :
            n \in 1..MaxCount,
            pre \in {<<>>, <<Say("a")>>}, post \in {<<>>, <<Say("b")>>}}

\* a control construct under keyword kw, after `alia kw <text>` (or without
\* it): whens is what the construct says when no alias is involved
AliasTexts == {<<"say", "z">>, <<"exit", "3">>}
KeywordBodies ==
    {[kw |-> "goto", lines |-> <<<<"goto", "L">>, Say("a"), <<"L:">>, Say("c")>>,
      says |-> <<"c">>],
     [kw |-> "rpt", lines |-> <<<<"rpt", "2", "say", "a">>, Say("c")>>,
      says |-> <<"a", "a", "c">>],
     [kw |-> "rpt", lines |-> <<<<"rpt", "2">>, Say("a"), <<"endrpt">>, Say("c")>>,
      says |-> <<"a", "a", "c">>],
     [kw |-> "case",
      lines |-> <<<<"case", "E">>, <<"when", "1">>, Say("a"), <<"endcase">>, Say("c")>>,
      says |-> <<"a", "c">>],
     [kw |-> "if", lines |-> <<<<"if", "1", "==", "1", "then", "say", "a">>, Say("c")>>,
      says |-> <<"a", "c">>],
     [kw |-> "brk",
      lines |-> <<<<"rpt", "2">>, Say("a"), <<"brk">>, Say("b"), <<"endrpt">>, Say("c")>>,
      says |-> <<"a", "c">>]}
KeywordScenarios ==
    UNION {{Scenario("keyword", pre \o b.lines, 0, 0, pre, <<>>, "", b.says, b.kw) :
               pre \in {<<>>} \cup {<<<<"alia", b.kw>> \o t>> : t \in AliasTexts}} :
           b \in KeywordBodies}

\* `sns <file>` between two say lines, inside zero or one block: the files
\* that are started, one that does not exist and one that is no .sig file
SnsFiles == DOMAIN sig_scripts \cup {"no.sig", "sn"}
SnsScenarios ==
    {Scenario("sns", Wrap(w, <<Say("a"), <<"sns", f>>, Say("b")>>) \o <<Say("c")>>,
              0, 0, <<>>, <<>>, "", <<w>>, f) :
        f \in SnsFiles, w \in Wraps}

\* a break at the top level of the script file, between two say lines: a
\* brk line, the brk command of an `if`, or an alias of brk
TopBreaks == InnerBreaks \cup {<<"k">>}
TopBreakScenarios ==
    {Scenario("topbrk",
              (IF b = <<"k">> THEN <<<<"alia", "k", "brk">>>> ELSE <<>>)
                  \o pre \o <<b, Say("b")>>,
              0, 0, pre, <<>>, "", <<b>>, <<>>) :
        b \in TopBreaks, pre \in {<<>>, <<Say("a")>>}}

\* a control keyword as the command of an `if ... then` line, or as a
\* stored command of the function fk, before `say a`, a label and `say c`
Trailing ==
    {<<"goto", "L">>, <<"rpt", "2", "say", "d">>, <<"case", "E">>,
     <<"if", "1", "==", "1", "then", "say", "d">>}
TrailingLines ==
    {<<"if", "1", "==", "1", "then">> \o t : t \in Trailing} \cup {<<"clf", "fk">>}
TrailingScenarios ==
    {Scenario("trailing", pre \o <<t, Say("a"), <<"L:">>, Say("c")>>,
              0, 0, pre, <<>>, "", <<t>>, <<>>) :
        t \in TrailingLines, pre \in {<<>>, <<Say("b")>>}}

\* a goto inside the body of a rpt block, of an inline rpt or of a case:
\* to L, defined only in the enclosing buffer (before or after the block),
\* or to M, defined inside the body ("inner").  `whens` is the output of
\* the run when labels are looked up in the body alone ("!": not found).
BodyGotoBlock(kind, n) ==
    CASE kind = "rpt" -> <<<<"rpt", IntStr(n)>>, Say("d"), <<"goto", "L">>, Say("e"),
                           <<"endrpt">>>>
      [] kind = "inline" -> <<<<"rpt", IntStr(n), "goto", "L">>>>
      [] kind = "case" -> <<<<"case", "E">>, <<"when", "0", "1">>, Say("d"), <<"goto", "L">>,
                            Say("e"), <<"endcase">>>>
      [] OTHER -> <<<<"rpt", IntStr(n)>>, Say("d"), <<"goto", "M">>, Say("e"), <<"M:">>,
                    Say("g"), <<"endrpt">>>>
BodyGotoOutput(kind, n) ==
    CASE kind = "rpt" -> Repeat(<<"d", "!", "e">>, n)
      [] kind = "inline" -> Repeat(<<"!">>, n)
      [] kind = "case" -> <<"d", "!", "e">>
      [] OTHER -> Repeat(<<"d", "g">>, n)
BodyGotoScenarios ==
    {Scenario("bodygoto",
              (IF place = "before" THEN <<<<"L:">>>> ELSE <<>>) \o <<Say("a")>>
                  \o BodyGotoBlock(kind, n) \o <<Say("b")>>
                  \o (IF place = "after" THEN <<<<"L:">>>> ELSE <<>>) \o <<Say("c")>>,
              n, 0, <<>>, <<>>, "", <<"a">> \o BodyGotoOutput(kind, n) \o <<"b", "c">>,
              kind) :
        kind \in {"rpt", "inline", "case", "inner"}, n \in 1..MaxCount,
        place \in {"before", "after"}}

Scenarios == PlainScenarios \cup RptScenarios \cup NestScenarios \cup CallScenarios
                 \cup CaseScenarios \cup CaseBreakScenarios \cup GotoScenarios
                 \cup LetScenarios \cup UnbalancedScenarios \cup IfScenarios
                 \cup CountScenarios \cup KeywordScenarios \cup SnsScenarios
                 \cup TopBreakScenarios \cup TrailingScenarios \cup BodyGotoScenarios


\* the lines entered at the prompt, and what the user types when asked
PromptLines ==
    {<<"let", "x", "=", "1">>, <<"let", "-r", "q", "=", "q">>,
     <<"let", "q", "=", "w">>, <<"let", "-r", "last", "=", "5">>,
     <<"unset", "q">>, <<"unset", "x">>, <<"ask", "q">>,
     <<"alia", "a", "a">>, <<"alia", "b", "c">>, <<"alia", "c", "b">>,
     <<"alia", "s", "say">>, <<"a">>, <<"b">>, <<"s", "hi">>, <<"unalia", "a">>,
     <<"fnc", "f", "say", "hi">>, <<"fnc", "g", "say", "a", "nxt", "say", "b">>,
     <<"fnc", "h", "say", "nxtra", "nxt", "say", "b">>, <<"export", "x">>,
     <<"let", "w", "=", "w">>, <<"export", "w">>, <<"let", "w", "=", "1">>,
     <<"unset", "w">>, <<"pth", "add", "d">>,
     <<"prof", "other">>, <<"prof", "default">>}
Entered == {"z"}

StoreAtRest ==
    /\ aliases = EmptyVars
    /\ readonly_vars = {}
    /\ exported_vars = {}
    /\ user_functions = EmptyVars
    /\ current_profile = "default"
    /\ rc_files = EmptyVars
    /\ os_environ = environ
    /\ nlines = 0
    /\ ro_writes = EmptyVars
    /\ slast = [line |-> <<>>, tokens |-> <<>>, alias |-> FALSE, raised |-> FALSE,
                 switched |-> FALSE]

(***************************************************************************)
(* The two state machines.  Spec runs main() on a scenario; JournalSpec    *)
(* issues journaled commands, undo and redo in any order.                  *)
(***************************************************************************)
JournalAtRest ==
    /\ fs = [p \in Paths |-> NoNode]
    /\ backups = <<>>
    /\ undo_stack = <<>>
    /\ redo_stack = <<>>
    /\ last = 0
    /\ ncmds = 0
    /\ pushed = <<>>
    /\ jlast = [op |-> "", rec |-> NoRec, nredo |-> 0]
    /\ touched = FALSE
    /\ run = NoRun
    /\ cyc = NoCyc

InterpreterAtRest ==
    /\ stack = <<>>
    /\ signal = "none"
    /\ status = "idle"
    /\ exit_code = 0
    /\ ilast = 0
    /\ variables = EmptyVars
    /\ trace = <<>>
    /\ prog = Scenario("", <<>>, 0, 0, <<>>, <<>>, "", <<>>, <<>>)

Init == InterpreterAtRest /\ JournalAtRest /\ StoreAtRest /\ TextAtRest

\* main() reads the script file and calls run_lines on it
Start ==
    /\ status = "idle"
    /\ prog' \in Scenarios
    /\ stack' = <<Frame("main", <<>>, 0, 0, 0), LinesFrame(prog'.lines)>>
    /\ status' = "running"
    /\ variables' = IF prog'.x \in {"", "none"} THEN EmptyVars
                    ELSE [n \in {"x"} |-> prog'.x]
    /\ UNCHANGED <<signal, exit_code, ilast, trace>>
    /\ JournalIdle
    /\ StoreIdle /\ TextIdle

Next ==
    \/ Start
    \/ ReturnLines
    \/ SkipLine
    \/ PlainLine
    \/ GotoLine
    \/ BrkLine
    \/ IfLine
    \/ RptLine
    \/ RptLoop
    \/ CaseLine
    \/ CaseEnd
    \/ ClfStep
    \/ RunEnd
    \/ SnsEnd
    \/ MainEnd
    \/ UnwindLines
    \/ UnwindRpt
    \/ UnwindCase
    \/ UnwindClf
    \/ UnwindRun
    \/ UnwindSns
    \/ UnwindMain

Spec == Init /\ [][Next]_vars

JInit == JournalInit /\ InterpreterAtRest /\ StoreAtRest /\ TextAtRest

JournalSpec == JInit /\ [][JournalNext]_vars

\* an exception in flight is always handled by the frame on top of the stack
Unwind ==
    UnwindLines \/ UnwindRpt \/ UnwindCase \/ UnwindClf \/ UnwindRun \/ UnwindSns
        \/ UnwindMain

FairSpec == Spec /\ WF_vars(Unwind)

\* the interpreter is one sequential process: whenever it has a next step,
\* it takes it
RunSpec == Spec /\ WF_vars(Next)

(***************************************************************************)
(* StoreSpec: lines entered at the prompt, one run_lines call each.        *)
(***************************************************************************)
StoreInit == InterpreterAtRest /\ JournalAtRest /\ StoreAtRest /\ TextAtRest

\* history: the readonly writes after a line whose expansion is e
RoWritesAfter(e) ==
    IF e.raised \/ e.tokens = <<>> THEN ro_writes
    ELSE IF e.tokens[1] = "prof" /\ Len(e.tokens) >= 2 THEN EmptyVars
    ELSE IF e.tokens[1] = "let" /\ HasFlag(Tail(e.tokens)) /\ Len(e.tokens) >= 3
        THEN Assign(ro_writes, e.tokens[3],
                    StoredValue(variables, Tail(Tail(e.tokens))))
    ELSE ro_writes

\* a line of definition commands is entered
PromptLine ==
    /\ nlines < MaxStore
    /\ \E raw \in PromptLines, entered \in Entered :
          LET e == ExpandLine(aliases, variables, raw, 1)
              T == execute_line(Tables, raw, FALSE, entered)
          IN  /\ aliases' = T.aliases
              /\ variables' = T.variables
              /\ readonly_vars' = T.readonly_vars
              /\ exported_vars' = T.exported_vars
              /\ user_functions' = T.functions
              /\ current_profile' = T.current_profile
              /\ rc_files' = T.rc
              /\ os_environ' = T.environ
              /\ ro_writes' = RoWritesAfter(e)
              /\ slast' = [line |-> raw,
                           tokens |-> IF e.raised THEN <<>> ELSE e.tokens,
                           alias |-> raw[1] \in DOMAIN aliases,
                           raised |-> e.raised,
                           switched |-> ~e.raised /\ e.tokens # <<>>
                                          /\ e.tokens[1] = "prof" /\ Len(e.tokens) >= 2]
    /\ nlines' = nlines + 1
    /\ UNCHANGED <<stack, signal, status, exit_code, ilast, trace, prog>>
    /\ JournalIdle
    /\ TextIdle

\* `mk file p` is entered: the journaled handler, then its status
PromptMk ==
    /\ nlines < MaxStore
    /\ mk_file("p", "")
    /\ variables' = set_last_exit(Tables, IntStr(last')).variables
    /\ nlines' = nlines + 1
    /\ slast' = [line |-> <<"mk", "file", "p">>, tokens |-> <<"mk", "file", "p">>,
                 alias |-> FALSE, raised |-> FALSE,
                 switched |-> FALSE]
    /\ UNCHANGED <<stack, signal, status, exit_code, ilast, trace, prog>>
    /\ UNCHANGED <<aliases, readonly_vars, exported_vars, user_functions,
                   current_profile, rc_files, os_environ, ro_writes>>
    /\ TextIdle

\* `cnf` is entered, or `gbc` with the answer to its question: the tables
\* are cleaned and the journal is cleared
PromptClean ==
    /\ nlines < MaxStore
    /\ \E cmd \in {"cnf", "gbc"}, answer \in {"yes", "no"} :
          LET confirmed == cmd = "cnf" \/ answer = "yes"
              T == IF confirmed THEN cnf(Tables, FALSE) ELSE set_last_exit(Tables, "0")
          IN  /\ IF confirmed THEN clear_journal(cmd)
                 ELSE /\ last' = 0
                      /\ UNCHANGED <<fs, backups, undo_stack, redo_stack, ncmds, pushed,
                                     jlast, touched, run, cyc>>
              /\ aliases' = T.aliases
              /\ variables' = T.variables
              /\ readonly_vars' = T.readonly_vars
              /\ exported_vars' = T.exported_vars
              /\ user_functions' = T.functions
              /\ rc_files' = T.rc
              /\ os_environ' = T.environ
              /\ slast' = [line |-> <<cmd>>, tokens |-> <<cmd>>, alias |-> FALSE,
                           raised |-> FALSE, switched |-> FALSE]
    /\ nlines' = nlines + 1
    /\ UNCHANGED <<stack, signal, status, exit_code, ilast, trace, prog>>
    /\ UNCHANGED <<current_profile, ro_writes>>
    /\ TextIdle

StoreNext == PromptLine \/ PromptMk \/ PromptClean

StoreSpec == StoreInit /\ [][StoreNext]_vars

(***************************************************************************)
(* TextProcessor: a line is the sequence of its characters.                *)
(***************************************************************************)
\* longest line given to tokenize
MaxChars == 5

Quote == "\""

\* str.isspace()
IsSpace(char) == char \in {" ", "\t"}

\* the characters the lines given to tokenize are made of
TokenizeChars == {"a", " ", Quote, "$"}

\* say "hello world" $x
HelloLine ==
    <<"s", "a", "y", " ", Quote, "h", "e", "l", "l", "o", " ", "w", "o", "r", "l", "d",
      Quote, " ", "$", "x">>

TokenizeLines == SeqsUpTo(TokenizeChars, MaxChars) \cup {HelloLine}

\* the loop of tokenize from character i on
RECURSIVE TokenizeFrom(_, _, _, _, _)
TokenizeFrom(line, i, tokens, current, in_quotes) ==
    IF i > Len(line)
        THEN IF current # <<>> THEN Append(tokens, current) ELSE tokens
    ELSE LET char == line[i]
         IN  IF char = Quote
                 THEN TokenizeFrom(line, i + 1, tokens, Append(current, char), ~in_quotes)
             ELSE IF IsSpace(char) /\ ~in_quotes
                 THEN TokenizeFrom(line, i + 1,
                                   IF current # <<>> THEN Append(tokens, current)
                                   ELSE tokens,
                                   <<>>, in_quotes)
             ELSE TokenizeFrom(line, i + 1, tokens, Append(current, char), in_quotes)

\* a tokenizer that splits at every space, quoted or not
tokenizeMutantNoQuotes(line) ==
    TokenizeFrom([i \in 1..Len(line) |-> IF line[i] = Quote THEN "a" ELSE line[i]],
                 1, <<>>, <<>>, FALSE)

\* TextProcessor.tokenize
tokenize(line) == TokenizeFrom(line, 1, <<>>, <<>>, FALSE)

\* longest line of the enumerated buffers given to strip_comments
MaxStripChars == 3

\* str.find of a two-character marker from position `from` on (0: not found)
Find2(line, a, b, from) ==
    LET hits == {i \in from..(Len(line) - 1) : line[i] = a /\ line[i + 1] = b}
    IN  IF hits = {} THEN 0 ELSE CHOOSE i \in hits : \A j \in hits : i <= j

\* str.lstrip() and str.rstrip()
RECURSIVE lstrip(_)
lstrip(line) == IF line # <<>> /\ IsSpace(line[1]) THEN lstrip(Tail(line)) ELSE line

RECURSIVE rstrip(_)
rstrip(line) ==
    IF line # <<>> /\ IsSpace(line[Len(line)])
        THEN rstrip(SubSeq(line, 1, Len(line) - 1))
    ELSE line

\* the `while True` loop of strip_comments: the block comments of the line
\* are cut out; a block comment left open cuts the rest of the line
RECURSIVE RemoveBlocks(_)
RemoveBlocks(line) ==
    LET start_idx == Find2(line, "/", "*", 1)
        end_idx == Find2(line, "*", "/", start_idx + 2)
    IN  IF start_idx = 0 THEN [line |-> line, in_block_comment |-> FALSE]
        ELSE IF end_idx = 0
            THEN [line |-> SubSeq(line, 1, start_idx - 1), in_block_comment |-> TRUE]
        ELSE RemoveBlocks(SubSeq(line, 1, start_idx - 1)
                            \o SubSeq(line, end_idx + 2, Len(line)))

\* the character loop of strip_comments: the position of the first comment
\* marker outside quotes, Len(line) + 1 when there is none
RECURSIVE MarkerFrom(_, _, _)
MarkerFrom(line, i, in_quotes) ==
    IF i > Len(line) THEN i
    ELSE LET char == line[i]
         IN  IF char = Quote THEN MarkerFrom(line, i + 1, ~in_quotes)
             ELSE IF ~in_quotes /\ char \in {"&", "#"} THEN i
             ELSE IF ~in_quotes /\ char = "/" /\ i + 1 <= Len(line) /\ line[i + 1] = "/"
                 THEN i
             ELSE MarkerFrom(line, i + 1, in_quotes)

\* strip_comments from `# Handle new block comments` on
StripOutside(line) ==
    LET r == RemoveBlocks(line)
        stripped == lstrip(r.line)
    IN  IF stripped # <<>> /\ stripped[1] = "&"
            THEN [text |-> <<>>, in_block_comment |-> r.in_block_comment]
        ELSE [text |-> rstrip(SubSeq(r.line, 1, MarkerFrom(r.line, 1, FALSE) - 1)),
              in_block_comment |-> r.in_block_comment]

\* a strip_comments that forgets the block comment the line starts in
strip_commentsMutantForgets(line, in_block) == StripOutside(line)

\* TextProcessor.strip_comments
strip_comments(line, in_block) ==
    IF in_block
        THEN LET end_idx == Find2(line, "*", "/", 1)
             IN  IF end_idx = 0 THEN [text |-> <<>>, in_block_comment |-> TRUE]
                 ELSE StripOutside(SubSeq(line, end_idx + 2, Len(line)))
    ELSE StripOutside(line)

\* say hi & comment
SayHiLine ==
    <<"s", "a", "y", " ", "h", "i", " ", "&", " ", "c", "o", "m", "m", "e", "n", "t">>

\* a /* b    c */ d # e    f "g & h" // i
OpeningLine == <<"a", " ", "/", "*", " ", "b">>
ClosingLine == <<"c", " ", "*", "/", " ", "d", " ", "#", " ", "e">>
FollowingLine ==
    <<"f", " ", Quote, "g", " ", "&", " ", "h", Quote, " ", "/", "/", " ", "i">>

\* the characters of the enumerated lines
BlockChars == {"a", "/", "*", "&"}
StripChars == BlockChars \cup {" ", Quote, "#"}

\* the buffers given to run_lines
Buffers ==
    {<<l>> : l \in SeqsUpTo(StripChars, MaxStripChars) \cup {SayHiLine}}
    \cup {<<l1, l2>> : l1, l2 \in SeqsUpTo(BlockChars, MaxStripChars)}
    \cup {<<l1, l2, l3>> : l1 \in {<<"/", "*">>, <<"a">>},
                           l2, l3 \in SeqsUpTo(BlockChars, MaxStripChars - 1)}
    \cup {<<OpeningLine, <<"b">>, ClosingLine, FollowingLine>>,
          <<OpeningLine, ClosingLine, SayHiLine>>}

\* most pieces (literal characters and variable references) of an
\* enumerated token given to the variable expansion
MaxPieces == 3

\* [A-Za-z_] and [0-9] of TextProcessor._varname_re
NameStart ==
    {"a", "b", "c", "d", "e", "f", "g", "h", "i", "j", "k", "l", "m", "n", "o", "p",
     "q", "r", "s", "t", "u", "v", "w", "x", "y", "z", "A", "B", "C", "D", "E", "F",
     "G", "H", "I", "J", "K", "L", "M", "N", "O", "P", "Q", "R", "S", "T", "U", "V",
     "W", "X", "Y", "Z", "_"}
DigitChars == <<"0", "1", "2", "3", "4", "5", "6", "7", "8", "9">>
NameChar(char) == char \in NameStart \/ \E d \in 1..10 : DigitChars[d] = char

\* a stored value is an int or a str
IntValue(n) == [type |-> "int", v |-> n]
StrValue(text) == [type |-> "str", v |-> text]

\* str(n) for a natural number
RECURSIVE Decimal(_)
Decimal(n) ==
    IF n < 10 THEN <<DigitChars[n + 1]>>
    ELSE Append(Decimal(n \div 10), DigitChars[(n % 10) + 1])

\* str(value)
str(value) == IF value.type = "int" THEN Decimal(value.v) ELSE value.v

\* os.environ by characters: b is also a stored variable in some stores
Environment == (<<"E">> :> <<"e">>) @@ (<<"b">> :> <<"t">>)

\* a lookup that asks the process environment first
ResolveMutantEnvFirst(vs, name) ==
    IF name \in DOMAIN Environment THEN Environment[name]
    ELSE IF name \in DOMAIN vs THEN str(vs[name])
    ELSE <<>>

\* str(State.variables.get(var_name, os.environ.get(var_name, "")))
Resolve(vs, name) ==
    IF name \in DOMAIN vs THEN str(vs[name])
    ELSE IF name \in DOMAIN Environment THEN Environment[name]
    ELSE <<>>

\* _varname_re.match(text[i:]): the length of the name that starts at
\* character i, 0 when none does
RECURSIVE NameLen(_, _, _)
NameLen(text, i, n) ==
    IF i + n > Len(text) THEN n
    ELSE IF n = 0 /\ text[i] \notin NameStart THEN 0
    ELSE IF ~NameChar(text[i + n]) THEN n
    ELSE NameLen(text, i, n + 1)

\* text.find('}', from): 0 when there is none
FindBrace(text, from) ==
    LET hits == {i \in from..Len(text) : text[i] = "}"}
    IN  IF hits = {} THEN 0 ELSE CHOOSE i \in hits : \A j \in hits : i <= j

\* the loop of expand_vars_in_string from character i on
RECURSIVE ExpandFrom(_, _, _, _)
ExpandFrom(text, i, result, vs) ==
    IF i > Len(text) THEN result
    ELSE LET char == text[i]
             end_idx == FindBrace(text, i + 2)
             name_len == NameLen(text, i + 1, 0)
         IN  IF char = "\\"
                 THEN IF i + 1 <= Len(text) /\ text[i + 1] \in {"$", "{", "}", Quote, "\\"}
                          THEN ExpandFrom(text, i + 2, Append(result, text[i + 1]), vs)
                      ELSE ExpandFrom(text, i + 1, Append(result, "\\"), vs)
             ELSE IF char = "$" /\ i + 1 <= Len(text) /\ text[i + 1] = "{" /\ end_idx # 0
                 THEN ExpandFrom(text, end_idx + 1,
                                 result \o Resolve(vs, SubSeq(text, i + 2, end_idx - 1)), vs)
             ELSE IF char = "$" /\ name_len > 0
                 THEN ExpandFrom(text, i + 1 + name_len,
                                 result \o Resolve(vs, SubSeq(text, i + 1, i + name_len)), vs)
             ELSE ExpandFrom(text, i + 1, Append(result, char), vs)

\* TextProcessor.expand_vars_in_string
expand_vars_in_string(text, vs) == ExpandFrom(text, 1, <<>>, vs)

\* expanded.replace('"', '\\"')
RECURSIVE EscapeQuotes(_)
EscapeQuotes(text) ==
    IF text = <<>> THEN <<>>
    ELSE (IF text[1] = Quote THEN <<"\\", Quote>> ELSE <<text[1]>>)
            \o EscapeQuotes(Tail(text))

\* the body of the token loop of expand_aliases_and_vars
expand_token(token, vs) ==
    LET inner == SubSeq(token, 2, Len(token) - 1)
    IN  IF Len(token) >= 2 /\ token[1] = "'" /\ token[Len(token)] = "'"
            THEN IF inner \in DOMAIN vs THEN str(vs[inner])
                 ELSE IF inner \in DOMAIN Environment THEN Environment[inner]
                 ELSE inner
        ELSE IF Len(token) >= 2 /\ token[1] = Quote /\ token[Len(token)] = Quote
            THEN <<Quote>> \o EscapeQuotes(expand_vars_in_string(inner, vs)) \o <<Quote>>
        ELSE IF \E i \in 1..Len(token) : token[i] = "$"
            THEN expand_vars_in_string(token, vs)
        ELSE IF token \in DOMAIN vs THEN str(vs[token])
        ELSE token

\* the pieces a token is written from: a literal character, $name, ${name}
Lit(char) == [kind |-> "lit", s |-> <<char>>]
Bare(name) == [kind |-> "bare", s |-> name]
Braced(name) == [kind |-> "braced", s |-> name]

Written(piece) ==
    CASE piece.kind = "lit" -> piece.s
      [] piece.kind = "bare" -> <<"$">> \o piece.s
      [] piece.kind = "braced" -> <<"$", "{">> \o piece.s \o <<"}">>

\* the token that the pieces spell, in double quotes or without
TokenOf(arg) ==
    LET text == Flatten([k \in 1..Len(arg.pieces) |-> Written(arg.pieces[k])])
    IN  IF arg.quoted THEN <<Quote>> \o text \o <<Quote>> ELSE text

\* names: x and b are stored in some stores, b and E are in the
\* environment, y is nowhere
RefNames == {<<"x">>, <<"b">>, <<"E">>, <<"y">>}
PieceSet ==
    {Lit("v"), Lit("=")} \cup {Bare(n) : n \in RefNames} \cup {Braced(n) : n \in RefNames}

\* State.variables at the time of the call
Stores ==
    {<<>>, <<"x">> :> IntValue(5), (<<"x">> :> IntValue(5)) @@ (<<"b">> :> StrValue(<<"s">>)),
     <<"x">> :> IntValue(12)}

\* "value=$x"
ValuePieces ==
    <<Lit("v"), Lit("a"), Lit("l"), Lit("u"), Lit("e"), Lit("="), Bare(<<"x">>)>>

Expansions ==
    [pieces : SeqsUpTo(PieceSet, MaxPieces) \cup {ValuePieces},
     quoted : BOOLEAN, variables : Stores]

TextInit ==
    /\ InterpreterAtRest /\ JournalAtRest /\ StoreAtRest
    /\ subject \in [fn : {"tokenize"}, arg : TokenizeLines]
                     \cup [fn : {"strip_comments"}, arg : Buffers]
                     \cup [fn : {"expand"}, arg : Expansions]
    /\ returned = <<>>
    /\ in_block_comment = FALSE

\* the line is tokenized
Tokenize ==
    /\ subject.fn = "tokenize"
    /\ returned = <<>>
    /\ returned' = <<tokenize(subject.arg)>>
    /\ UNCHANGED <<subject, in_block_comment>>
    /\ InterpreterIdle /\ JournalIdle /\ StoreIdle

\* the loop of run_lines strips the next line of the buffer
StripLine ==
    /\ subject.fn = "strip_comments"
    /\ Len(returned) < Len(subject.arg)
    /\ LET r == strip_comments(subject.arg[Len(returned) + 1], in_block_comment)
       IN  /\ returned' = Append(returned, r)
           /\ in_block_comment' = r.in_block_comment
    /\ UNCHANGED subject
    /\ InterpreterIdle /\ JournalIdle /\ StoreIdle

\* the token is expanded
Expand ==
    /\ subject.fn = "expand"
    /\ returned = <<>>
    /\ returned' = <<expand_token(TokenOf(subject.arg), subject.arg.variables)>>
    /\ UNCHANGED <<subject, in_block_comment>>
    /\ InterpreterIdle /\ JournalIdle /\ StoreIdle

TextNext == Tokenize \/ StripLine \/ Expand

TextSpec == TextInit /\ [][TextNext]_vars

(***************************************************************************)
(* Properties of the interpreter, checked under Spec and FairSpec.         *)
(***************************************************************************)
Done == status = "exited"
IsExec(e) == e.t = "exec"
IsSay(e) == e.t = "exec" /\ e.cmd[1] = "say"
IsIter(e) == e.t = "iter"
\* the commands that were dispatched to a handler, in order
ExecCmds(tr) == LET es == SelectSeq(tr, IsExec) IN [i \in 1..Len(es) |-> es[i].cmd]
\* the words that were said, in order
Says(tr) == LET es == SelectSeq(tr, IsSay) IN [i \in 1..Len(es) |-> es[i].cmd[2]]
Iterations(tr) == Len(SelectSeq(tr, IsIter))
NotEmptyLine(l) == l # <<>>
Words(ls) == LET es == SelectSeq(ls, NotEmptyLine) IN [i \in 1..Len(es) |-> es[i][2]]

\* C1: in a buffer of plain command lines, a handler that raises an error
\* is followed by the report of the error with the last-status set to 1,
\* and the run still executes every line of the buffer, in order, and ends
\* as a completed script.
C1_LineResilience ==
    prog.fam = "plain" =>
        /\ \A i \in 1..Len(trace) :
               (trace[i].out = "raise" /\ i < Len(trace)) =>
                   trace[i + 1] = Report("error executing line")
        /\ (trace # <<>> /\ trace[Len(trace)] = Report("error executing line")) => ilast = 1
        /\ (trace # <<>> /\ trace[Len(trace)].out = "raise") => signal = "error"
        /\ Done => /\ ExecCmds(trace) = SelectSeq(prog.lines, NotEmptyLine)
                   /\ exit_code = ilast

\* the handler of the first line raised and the second line was executed
C1_Witness ==
    /\ prog.fam = "plain"
    /\ Done
    /\ Len(trace) >= 3
    /\ trace[1].out = "raise"
    /\ trace[2] = Report("error executing line")
    /\ trace[3].t = "exec"

\* C2 (safety part): the exit command is the last thing the run does; from
\* then on the exit signal stays in flight until the process has ended, and
\* the process ends with the requested status (0 when none is given).
ExitIsFinal ==
    \A i \in 1..Len(trace) :
        trace[i].out = "exit" =>
            /\ i = Len(trace)
            /\ ~Done => signal = "exit"
            /\ Done =>
                   /\ Len(trace[i].cmd) = 1 => exit_code = 0
                   /\ (Len(trace[i].cmd) > 1 /\ ParseInt(trace[i].cmd[2]) # NotInt) =>
                          exit_code = ParseInt(trace[i].cmd[2])

\* C2: exit at any nesting depth (rpt body, case body, function called with
\* clf, script started by run) ends the whole run: nothing executes after
\* it and the process terminates with the requested status.
C2_ExitPropagation == []ExitIsFinal /\ ((signal = "exit") ~> Done)

\* exit 3 ran in a function called in a rpt block of a script started by
\* run inside a case body inside a rpt body, and the process ended with 3
C2_Witness ==
    /\ prog.fam = "call"
    /\ prog.whens = <<"rpt", "case">>
    /\ InSeq(<<"run", "sf">>, prog.lines)
    /\ Done
    /\ exit_code = 3
    /\ trace[Len(trace)] = Exec(Exit3, "exit")

\* what is said by a rpt block of n iterations whose body, pre then post,
\* raises break between them in iteration k, followed by `say c`
SaysOfBreak(n, k, pre, post) ==
    Repeat(Words(pre) \o Words(post), k - 1) \o Words(pre) \o <<"c">>

\* C9: when the body of `rpt N` raises break in iteration k <= N, exactly k
\* iterations are started, the lines after the break do not run in
\* iteration k, and the line after endrpt runs next; a break in an inner
\* rpt block ends the inner loop only, the outer loop runs all its
\* iterations.
C9_BreakInRepeat ==
    /\ (prog.fam = "rpt" /\ prog.k <= prog.n /\ Done) =>
           /\ Says(trace) = SaysOfBreak(prog.n, prog.k, prog.pre, prog.post)
           /\ Iterations(trace) = prog.k
           /\ exit_code = 0
    /\ (prog.fam = "nest" /\ Done) =>
           /\ Says(trace) = Repeat(Words(prog.pre) \o <<"d">> \o Words(prog.post), prog.k)
                                \o <<"c">>
           /\ Iterations(trace) = 2 * prog.k
           /\ exit_code = 0

\* `rpt 3` ... endrpt broke in its second iteration
C9_Witness ==
    /\ prog.fam = "rpt"
    /\ prog.n = 3
    /\ prog.k = 2
    /\ Done
    /\ Says(trace) = <<"a", "b", "a", "c">>
    /\ Iterations(trace) = 2

\* the first when clause of the scenario whose values contain x (0: none)
Matches(i) == InSeq(prog.x, prog.whens[i].vals)
FirstMatch ==
    IF \E i \in 1..Len(prog.whens) : Matches(i)
        THEN CHOOSE i \in 1..Len(prog.whens) :
                 Matches(i) /\ \A j \in 1..(i - 1) : ~Matches(j)
    ELSE 0

\* C10: a case runs the body of the first when clause whose values contain
\* the value of the variable, and no other body; the else body runs exactly
\* when no clause matches and there is an else; then the line after endcase
\* runs.
C10_CaseFirstMatch ==
    (prog.fam = "case" /\ Done) =>
        Says(trace) =
            (IF FirstMatch # 0
                 THEN IF prog.whens[FirstMatch].body THEN <<WhenName(FirstMatch)>> ELSE <<>>
             ELSE IF prog.els = "body" THEN <<"e">>
             ELSE <<>>) \o <<"c">>

\* two when clauses match, the first one ran
C10_Witness ==
    /\ prog.fam = "case"
    /\ Len(prog.whens) = 2
    /\ Matches(1) /\ Matches(2)
    /\ prog.whens[1].body /\ prog.whens[2].body
    /\ prog.els = "body"
    /\ Done
    /\ Says(trace) = <<"w1", "c">>

(***************************************************************************)
(* Properties of the journal, checked under JournalSpec.                   *)
(***************************************************************************)
LastN(s, n) == IF Len(s) <= n THEN s ELSE SubSeq(s, Len(s) - n + 1, Len(s))
Reverse(s) == [i \in 1..Len(s) |-> s[Len(s) + 1 - i]]
IsCommand(op) == op \in {"mk", "cpy", "dlt", "move"}

\* C3: the undo stack never holds more than UNDO_LIMIT records, and as long
\* as only pushes have happened it holds the UNDO_LIMIT most recent pushed
\* records in push order (the oldest ones evicted).
C3_UndoStackBound ==
    /\ Len(undo_stack) <= UNDO_LIMIT
    /\ ~touched => undo_stack = LastN(pushed, UNDO_LIMIT)

\* UNDO_LIMIT + 1 pushes on an empty journal: the first one was evicted
C3_Witness ==
    /\ ~touched
    /\ Len(pushed) = UNDO_LIMIT + 1
    /\ Len(undo_stack) = UNDO_LIMIT
    /\ undo_stack = Tail(pushed)
    /\ pushed[1] # pushed[2]

\* C4: right after a command that recorded an action the redo stack is
\* empty, whatever it held before.
C4_PushClearsRedo ==
    (IsCommand(jlast.op) /\ jlast.rec # NoRec) => redo_stack = <<>>

\* a command recorded an action while the redo stack was not empty
C4_Witness ==
    /\ IsCommand(jlast.op)
    /\ jlast.rec # NoRec
    /\ jlast.nredo > 0
    /\ redo_stack = <<>>

\* the paths an action record is about
AffectedPaths(action) ==
    IF action.op \in {"cpy", "move"} THEN {action.path, action.dst} ELSE {action.path}

\* C5: an undo immediately followed by a redo leaves every path of the
\* action as it was just before the undo (existence and content).
C5_UndoRedoLaw ==
    (run.u = 1 /\ run.r = 1 /\ jlast.op = "redo")
        => \A p \in AffectedPaths(jlast.rec) : fs[p] = run.fs0[p]

\* C6: after mk file on an absent path P: undo removes P, redo recreates P,
\* a second undo removes it again, and after the second redo the filesystem
\* and both stacks are what they were after the first cycle.
C6_CreateFileCycles ==
    cyc.active =>
        /\ cyc.n = 0 => fs[cyc.path].kind = "file"
        /\ cyc.n = 1 => ~Exists(fs, cyc.path)
        /\ cyc.n = 2 => fs[cyc.path].kind = "file"
        /\ cyc.n = 3 => ~Exists(fs, cyc.path)
        /\ cyc.n = 4 => /\ fs[cyc.path].kind = "file"
                        /\ fs = cyc.fs1
                        /\ undo_stack = cyc.undo1
                        /\ redo_stack = cyc.redo1

\* two full undo/redo cycles were made after creating a file
C6_Witness == cyc.active /\ cyc.n = 4 /\ last = 0 /\ fs[cyc.path].kind = "file"

\* C7: undo takes the most recently pushed record off the undo stack and
\* puts it on top of the redo stack, redo does the reverse; after k undos
\* the k top records lie reversed on the redo stack, and after k more redos
\* both stacks are what they were.
C7_StackDiscipline ==
    /\ (jlast.op = "undo" /\ jlast.rec # NoRec) =>
           /\ redo_stack # <<>>
           /\ redo_stack[Len(redo_stack)] = jlast.rec
    /\ (jlast.op = "redo" /\ jlast.rec # NoRec) =>
           /\ undo_stack # <<>>
           /\ undo_stack[Len(undo_stack)] = jlast.rec
    /\ (run.u > 0 /\ run.r = 0) =>
           /\ run.u <= Len(run.undo0)
           /\ undo_stack = SubSeq(run.undo0, 1, Len(run.undo0) - run.u)
           /\ redo_stack = run.redo0 \o Reverse(LastN(run.undo0, run.u))
    /\ (run.u > 0 /\ run.r = run.u) =>
           /\ undo_stack = run.undo0
           /\ redo_stack = run.redo0

\* two undos then two redos over a stack of two different records
C7_Witness ==
    /\ run.u = 2
    /\ run.r = 2
    /\ Len(undo_stack) >= 2
    /\ undo_stack[Len(undo_stack)] # undo_stack[Len(undo_stack) - 1]

\* C8: undo on an empty undo stack, and redo on an empty redo stack, change
\* neither the stacks nor the filesystem nor the backup store, and set the
\* last-status to failure.
C8_EmptyIsNoOp ==
    [][/\ (jlast'.op = "undo" /\ undo_stack = <<>>) =>
              (last' = 1 /\ UNCHANGED <<fs, backups, undo_stack, redo_stack>>)
       /\ (jlast'.op = "redo" /\ redo_stack = <<>>) =>
              (last' = 1 /\ UNCHANGED <<fs, backups, undo_stack, redo_stack>>)]_vars

\* an undo found nothing to undo after a command had succeeded
C8_Witness ==
    /\ jlast.op \in {"undo", "redo"}
    /\ jlast.rec = NoRec
    /\ last = 1
    /\ undo_stack # <<>> \/ redo_stack # <<>>

(***************************************************************************)
(* Further properties of the interpreter, checked under Spec.              *)
(***************************************************************************)
\* C11: a break raised in the executed body of a case skips the rest of that
\* body only: the line after endcase runs next, and a rpt block around the
\* case still runs all its iterations.
C11_BreakInCase ==
    (prog.fam = "casebrk" /\ Done) =>
        /\ Says(trace) = Repeat(Words(prog.pre) \o <<"d">> \o Words(prog.post),
                                IF prog.n = 0 THEN 1 ELSE prog.n) \o <<"c">>
        /\ Iterations(trace) = prog.n
        /\ exit_code = 0

\* the else body of a case in a `rpt 2` block broke in both iterations
C11_Witness ==
    /\ prog.fam = "casebrk"
    /\ prog.n = 2
    /\ prog.els = "else"
    /\ prog.whens = <<<<"brk">>>>
    /\ Done
    /\ Says(trace) = <<"a", "d", "b", "a", "d", "b", "c">>

\* what a buffer of say, label and goto lines puts out when read from
\* cursor i as the claim has it: a goto to a defined label continues at the
\* first executable line after the last definition of the label, a goto to
\* an undefined label is reported ("!") and the next line follows
RECURSIVE GotoOutput(_, _, _)
GotoOutput(lines, i, jumps) ==
    IF i >= Len(lines) \/ jumps > MaxJumps THEN <<>>
    ELSE LET l == lines[i + 1]
             defs == {j \in 1..Len(lines) : IsLabel(lines[j]) /\ LabelName(lines[j][1]) = l[2]}
         IN  IF l = <<>> \/ Len(l) = 1 THEN GotoOutput(lines, i + 1, jumps)
             ELSE IF l[1] = "say" THEN <<l[2]>> \o GotoOutput(lines, i + 1, jumps)
             ELSE IF defs = {} THEN <<"!">> \o GotoOutput(lines, i + 1, jumps)
             ELSE GotoOutput(lines, CHOOSE j \in defs : \A k \in defs : k <= j, jumps + 1)

\* the say words and the label-not-found reports of a run, in order
IsOutput(e) == IsSay(e) \/ e = Report("label not found")
Output(tr) ==
    LET es == SelectSeq(tr, IsOutput)
    IN  [i \in 1..Len(es) |-> IF IsSay(es[i]) THEN es[i].cmd[2] ELSE "!"]

\* C12: `goto L` continues at the first executable line after the (last)
\* definition of L in the buffer; with L undefined the error is reported,
\* the next line follows and the run goes on to its end.
C12_Goto ==
    prog.fam = "goto" =>
        /\ Done => /\ Output(trace) = GotoOutput(prog.lines, 0, 0)
                   /\ exit_code = ilast
        /\ (trace # <<>> /\ trace[Len(trace)] = Report("label not found")) => ilast = 1

\* a goto to an undefined label, then a jump to the later of two
\* definitions of L, over the say line between them
C12_Witness ==
    /\ prog.fam = "goto"
    /\ prog.lines = <<<<"goto", "M">>, <<"goto", "L">>, <<"L:">>, Say("4")>>
           \/ prog.lines = <<<<"goto", "L">>, <<"L:">>, Say("3"), <<"L:">>>>
    /\ Done
    /\ Output(trace) \in {<<"!", "4">>, <<>>}
    /\ \E i \in 1..Len(trace) : IsJump(trace[i])

\* C15: after `let x = <value>` the store maps x to <value>, whether x was
\* undefined or held another value, and a later `$x` yields the new value.
C15_LetSetsVariable ==
    (prog.fam = "let" /\ Done) =>
        /\ "x" \in DOMAIN variables
        /\ variables["x"] = prog.whens[Len(prog.whens)]
        /\ trace[Len(trace)] = Exec(Say(prog.whens[Len(prog.whens)]), "ok")

\* C16: clf runs the stored commands in order; a break of a command ends
\* the function and the caller goes on (a rpt block around the call keeps
\* iterating); an error of a command ends the function with the failure
\* status and the caller's next line runs; an exit leaves clf and ends the
\* run.
C16_FunctionCall ==
    /\ (trace # <<>> /\ trace[Len(trace)] = Report("error in function")) => ilast = 1
    /\ (prog.fam = "call" /\ prog.whens[1] = "none" /\ Done) =>
           LET raised == \E i \in 1..Len(trace) : trace[i] = Exec(Mk, "raise")
               plain == prog.whens[2] = "none"
               looped == prog.whens[2] = "rpt"
           IN  /\ (plain /\ InSeq(<<"clf", "fb">>, prog.lines)) =>
                      (Says(trace) = <<"a", "f1", "b", "c">> /\ exit_code = 0)
               /\ (looped /\ InSeq(<<"clf", "fb">>, prog.lines)) =>
                      Says(trace) = <<"a", "f1", "b", "a", "f1", "b", "w", "c">>
               /\ (plain /\ InSeq(<<"clf", "fe">>, prog.lines)) =>
                      /\ Says(trace) = IF raised THEN <<"a", "f1", "b", "c">>
                                        ELSE <<"a", "f1", "f2", "b", "c">>
                      /\ \A i \in 1..Len(trace) :
                             trace[i] = Exec(Mk, "raise") =>
                                 trace[i + 1] = Report("error in function")
               /\ (prog.whens[2] \in {"none", "rpt"} /\ InSeq(<<"clf", "fx">>, prog.lines)) =>
                      (Says(trace) = <<"a", "f1">> /\ exit_code = 3)

\* the second command of a function raised an error and the caller went on
C16_Witness ==
    /\ prog.fam = "call"
    /\ prog.lines = <<Say("a"), <<"clf", "fe">>, Say("b"), Say("c")>>
    /\ Done
    /\ Says(trace) = <<"a", "f1", "b", "c">>
    /\ \E i \in 1..Len(trace) : trace[i] = Exec(Mk, "raise")

\* C17: a block-form rpt without endrpt, or a case without endcase, is
\* reported as an error and the lines after the opener are still executed.
C17_UnbalancedResumes ==
    (prog.fam = "unbalanced" /\ Done) =>
        /\ \E i \in 1..Len(trace) :
               trace[i] \in {Report("missing endrpt"), Report("missing endcase")}
        /\ Says(trace) = Words(prog.pre) \o <<"b", "c">>

\* C18: when the command of a true `if ... then <command>` raises an error,
\* the error is reported and the line after the if still runs.
C18_IfCommandError ==
    (prog.fam = "iferr" /\ Done) =>
        /\ Says(trace) = Words(prog.pre) \o <<"b">>
        /\ \A i \in 1..Len(trace) :
               trace[i].out = "raise" => (i < Len(trace) /\ trace[i + 1].t = "report")

\* the order of the operand tokens as strings
LexRank(tok) ==
    CASE tok = "05" -> 1 [] tok = "1" -> 2 [] tok = "2" -> 3 [] tok = "5" -> 4
      [] tok = "a" -> 5 [] OTHER -> 6

\* the value of a condition as the claim has it
Holds(c, x) ==
    IF Len(c) = 1 THEN (IF c[1] = "$x" THEN x \notin {"", "none"} ELSE c[1] # "")
    ELSE LET numeric == ParseInt(c[1]) # NotInt /\ ParseInt(c[3]) # NotInt
             l == IF numeric THEN ParseInt(c[1]) ELSE LexRank(c[1])
             r == IF numeric THEN ParseInt(c[3]) ELSE LexRank(c[3])
         IN  CASE c[2] = "==" -> l = r
               [] c[2] = "!=" -> l # r
               [] c[2] = "<" -> l < r
               [] c[2] = ">" -> l > r
               [] c[2] = "<=" -> l <= r
               [] OTHER -> l >= r

\* C19: `if <left> <op> <right>` compares numerically when both operands
\* parse as numbers and lexically as strings otherwise; a lone token is true
\* exactly when it is not empty after expansion.
C19_ConditionEvaluation ==
    (prog.fam = "cond" /\ Done) =>
        Says(trace) = IF Holds(prog.whens, prog.x) THEN <<"t", "c">> ELSE <<"c">>

(***************************************************************************)
(* Properties of the definition commands, checked under StoreSpec.         *)
(***************************************************************************)
\* every stored name is one NameOrder knows, so that Sorted loses none
StoreTypeOK ==
    LET Known == {NameOrder[i] : i \in 1..Len(NameOrder)}
    IN  /\ DOMAIN variables \subseteq Known
        /\ DOMAIN aliases \subseteq Known
        /\ DOMAIN user_functions \subseteq Known
        /\ readonly_vars \subseteq Known
        /\ exported_vars \subseteq Known

\* C13: expanding a line whose first token is an alias, an alias of itself
\* or of a cycle included, returns a line: the expansion stops within the
\* depth limit and raises no error.
C13_AliasExpansionReturns ==
    slast.alias => ~slast.raised

\* C14: a name written with the readonly flag keeps, in every later state,
\* the value of its latest write that carried the flag: it stays defined
\* and no command without the flag changes it.
C14_ReadonlyKeepsValue ==
    \A n \in DOMAIN ro_writes :
        n \in DOMAIN variables /\ variables[n] = ro_writes[n]

\* C20: after `prof <name>` has switched profile the undo and redo stacks
\* are empty, and the alias table, the variables with the readonly and
\* exported subsets and the function table are what replaying the rc file
\* of the target profile into cleared tables gives.
C20_ProfileSwitchReplaces ==
    [][slast'.switched =>
          LET T == set_last_exit(load(Cleared(Tables, current_profile')), "0")
          IN  /\ undo_stack' = <<>>
              /\ redo_stack' = <<>>
              /\ aliases' = T.aliases
              /\ variables' = T.variables
              /\ readonly_vars' = T.readonly_vars
              /\ exported_vars' = T.exported_vars
              /\ user_functions' = T.functions]_vars

(***************************************************************************)
(* Further properties of the journal, checked under JournalSpec.           *)
(***************************************************************************)
\* the kinds of record a successful command pushes
KindsOf(op) ==
    CASE op = "mk" -> {"mk_dir", "mk_file"}
      [] op = "cpy" -> {"cpy"}
      [] op = "dlt" -> {"dlt"}
      [] op = "move" -> {"move"}
      [] op = "wrt" -> {"edit"}
      [] OTHER -> {}

\* C21: every successful mk dir, mk file, cpy, move, dlt and wrt has pushed
\* one action record of the matching kind, which is on top of the undo stack.
C21_DestructiveJournaled ==
    (jlast.op \in {"mk", "cpy", "dlt", "move", "wrt"} /\ last = 0) =>
        /\ jlast.rec.op \in KindsOf(jlast.op)
        /\ undo_stack # <<>>
        /\ undo_stack[Len(undo_stack)] = jlast.rec

\* C26: a redo immediately followed by an undo returns the paths of the
\* action to their state before the redo; so a deleted object that undo
\* has restored is present again after redo and a second undo.
C26_RedoThenUndo ==
    redo_stack # <<>> =>
        LET action == redo_stack[Len(redo_stack)]
            redone == RedoStep(action, fs, backups)
            undone == UndoStep(action, redone.fs, redone.backups)
        IN  \A p \in AffectedPaths(action) : undone.fs[p] = fs[p]

\* C27: an undo that follows a create command which found its path existing
\* removes nothing: after `mk dir P` on an existing P the undo leaves P as
\* it is, after `mk file P` over a file the undo restores the old content.
C27_UndoKeepsPreexisting ==
    [][(jlast.op = "mk" /\ jlast.rec.existed /\ jlast'.op = "undo") =>
          /\ Exists(fs', jlast.rec.path)
          /\ jlast.rec.op = "mk_dir" => fs'[jlast.rec.path] = fs[jlast.rec.path]
          /\ jlast.rec.op = "mk_file" =>
                fs'[jlast.rec.path] = backups[jlast.rec.backup]]_vars

(***************************************************************************)
(* Properties of the rpt block, checked under Spec.                        *)
(***************************************************************************)
\* the words the say lines of a buffer of plain lines say
IsSayLine(l) == l # <<>> /\ l[1] = "say"
SaidBy(ls) == LET es == SelectSeq(ls, IsSayLine) IN [i \in 1..Len(es) |-> es[i][2]]

\* C28: a block `rpt N` ... `endrpt` whose body raises neither break nor
\* exit runs its body N times (not at all when N <= 0) and then the line
\* after endrpt; the body lines do not run once more after the loop.
C28_RepeatCount ==
    (prog.fam = "count" /\ Done) =>
        /\ Says(trace) = Repeat(SaidBy(prog.pre), prog.n) \o <<"c">>
        /\ Iterations(trace) = (IF prog.n > 0 THEN prog.n ELSE 0)
        /\ exit_code = 0

\* `rpt 2` with a body of two lines ran them twice, then the line after
C28_Witness ==
    /\ prog.fam = "count"
    /\ prog.n = 2
    /\ prog.pre = <<Say("a"), Mk>>
    /\ Done
    /\ Says(trace) = <<"a", "a", "c">>
    /\ Iterations(trace) = 2

\* C29: the body of a block rpt ends at its own endrpt: an inline line
\* `rpt 2 say d` inside the body consumes no endrpt, so the block is
\* captured and run n times, the inline line repeating its command twice
\* in each, and the line after endrpt runs next.
C29_BalancedCapture ==
    (prog.fam = "inline" /\ Done) =>
        Says(trace) = Repeat(Words(prog.pre) \o <<"d", "d">> \o Words(prog.post), prog.n)
                          \o <<"c">>

(***************************************************************************)
(* Properties of fnc, checked under StoreSpec.                             *)
(***************************************************************************)
IsNxt(tok) == tok = "nxt"

\* C30: fnc stores under the name the commands obtained by cutting its
\* argument tokens at each token equal to `nxt`, in their order; a word
\* that only contains the letters nxt does not end a command.
C30_FncSplitsOnToken ==
    (Len(slast.tokens) >= 4 /\ slast.tokens[1] = "fnc") =>
        LET name == slast.tokens[2]
            rest == SubSeq(slast.tokens, 3, Len(slast.tokens))
        IN  SelectSeq(rest, IsNxt) # rest =>
                /\ name \in DOMAIN user_functions
                /\ user_functions[name] = CutAt(rest, "nxt", <<>>)

(***************************************************************************)
(* Properties of the control keywords, checked under Spec.                 *)
(***************************************************************************)
\* C25: a line whose first token as written is goto, rpt, case, if or brk
\* is run as that control construct whatever the alias table holds, an
\* alias of that very keyword included: the run says what the construct
\* says without the alias, and the alias text is never executed.
C25_KeywordsNotAliased ==
    (prog.fam = "keyword" /\ Done) =>
        /\ Says(trace) = prog.whens
        /\ exit_code = 0

\* `goto L` jumped to its label although goto was an alias of `say z`
C25_Witness ==
    /\ prog.fam = "keyword"
    /\ prog.els = "goto"
    /\ "goto" \in DOMAIN aliases
    /\ aliases["goto"] = <<"say", "z">>
    /\ Done
    /\ Says(trace) = <<"c">>
    /\ \E i \in 1..Len(trace) : IsJump(trace[i])

(***************************************************************************)
(* Properties of the text functions, checked under TextSpec.               *)
(***************************************************************************)
\* character i of the line stands after an odd number of double quotes
Quoted(line, i) == Cardinality({k \in 1..(i - 1) : line[k] = Quote}) % 2 = 1

\* character i of the line is whitespace outside double quotes
Splits(line, i) == IsSpace(line[i]) /\ ~Quoted(line, i)

\* where the maximal runs of characters that do not split the line start
SpanStarts(line) ==
    {i \in 1..Len(line) : ~Splits(line, i) /\ (i = 1 \/ Splits(line, i - 1))}

SpanEnd(line, i) ==
    CHOOSE j \in i..Len(line) :
        /\ \A k \in i..j : ~Splits(line, k)
        /\ j = Len(line) \/ Splits(line, j + 1)

\* the runs, in the order of the line
Spans(line) ==
    LET starts == SpanStarts(line)
        nth(n) == CHOOSE st \in starts : Cardinality({t \in starts : t < st}) = n - 1
    IN  [n \in 1..Cardinality(starts) |-> SubSeq(line, nth(n), SpanEnd(line, nth(n)))]

\* C22: tokenize splits a line at whitespace outside double quotes, keeps a
\* double-quoted stretch inside one token with its quotes, yields no empty
\* token, keeps the line order, and keeps the rest of the line after an
\* unterminated quote in one token; say "hello world" $x gives say,
\* "hello world", $x.
C22_TokenizeSplitsOutsideQuotes ==
    (subject.fn = "tokenize" /\ returned # <<>>) =>
        /\ returned[1] = Spans(subject.arg)
        /\ \A n \in 1..Len(returned[1]) : returned[1][n] # <<>>
        /\ Quoted(subject.arg, Len(subject.arg) + 1) =>
              LET line == subject.arg
                  dangling == CHOOSE k \in 1..Len(line) :
                                  line[k] = Quote /\ \A j \in (k + 1)..Len(line) : line[j] # Quote
                  tail == returned[1][Len(returned[1])]
              IN  /\ Len(tail) >= Len(line) - dangling + 1
                  /\ tail = SubSeq(line, Len(line) - Len(tail) + 1, Len(line))
        /\ subject.arg = HelloLine =>
              returned[1] = <<SubSeq(HelloLine, 1, 3), SubSeq(HelloLine, 5, 17),
                              SubSeq(HelloLine, 19, 20)>>

\* the example line has been tokenized
C22_Witness ==
    /\ subject = [fn |-> "tokenize", arg |-> HelloLine]
    /\ returned # <<>>
    /\ Len(returned[1]) = 3

\* the line holds the two-character marker
Holds2(line, a, b) == \E i \in 1..(Len(line) - 1) : line[i] = a /\ line[i + 1] = b

\* the positions of the single-line comment markers outside double quotes
Markers(line) ==
    {i \in 1..Len(line) :
        /\ ~Quoted(line, i)
        /\ \/ line[i] \in {"&", "#"}
           \/ line[i] = "/" /\ i < Len(line) /\ line[i + 1] = "/"}

\* the text before the first single-line marker outside quotes, without
\* trailing whitespace
Visible(line) ==
    LET cut == IF Markers(line) = {} THEN Len(line) + 1
               ELSE CHOOSE i \in Markers(line) : \A j \in Markers(line) : i <= j
        last_kept == IF \E k \in 1..(cut - 1) : ~IsSpace(line[k])
                        THEN CHOOSE k \in 1..(cut - 1) :
                                 /\ ~IsSpace(line[k])
                                 /\ \A j \in (k + 1)..(cut - 1) : IsSpace(line[j])
                     ELSE 0
    IN  SubSeq(line, 1, last_kept)

\* whether line n of the buffer starts inside a block comment
StartsInBlock(n) == n > 1 /\ returned[n - 1].in_block_comment

\* C23: strip_comments carries the block-comment state from line to line: a
\* line that opens a block comment without closing it leaves the state set,
\* every line up to the closing marker yields empty text with the state
\* set, the text after the closing marker is processed normally with the
\* state cleared, and the next line is unaffected; within a line the text
\* from the first unquoted single-line marker on is dropped, so
\* `say hi & comment` gives `say hi` with the state clear.
C23_BlockCommentState ==
    subject.fn = "strip_comments" =>
        \A n \in 1..Len(returned) :
            LET line == subject.arg[n]
                close == Find2(line, "*", "/", 1)
                rest == SubSeq(line, close + 2, Len(line))
            IN  /\ (~StartsInBlock(n) /\ Holds2(line, "/", "*") /\ close = 0)
                      => returned[n].in_block_comment
                /\ (StartsInBlock(n) /\ close = 0)
                      => returned[n] = [text |-> <<>>, in_block_comment |-> TRUE]
                /\ (StartsInBlock(n) /\ close # 0 /\ ~Holds2(rest, "/", "*"))
                      => returned[n] = [text |-> Visible(rest),
                                        in_block_comment |-> FALSE]
                /\ (~StartsInBlock(n) /\ ~Holds2(line, "/", "*"))
                      => returned[n] = [text |-> Visible(line),
                                        in_block_comment |-> FALSE]
                /\ (~StartsInBlock(n) /\ line = SayHiLine)
                      => returned[n] = [text |-> SubSeq(SayHiLine, 1, 6),
                                        in_block_comment |-> FALSE]

\* a block comment opened on the first line and closed on the third has been
\* stripped, and the line after it
C23_Witness ==
    /\ subject = [fn |-> "strip_comments",
                  arg |-> <<OpeningLine, <<"b">>, ClosingLine, FollowingLine>>]
    /\ returned = <<[text |-> <<"a">>, in_block_comment |-> TRUE],
                    [text |-> <<>>, in_block_comment |-> TRUE],
                    [text |-> <<" ", "d">>, in_block_comment |-> FALSE],
                    [text |-> SubSeq(FollowingLine, 1, 9), in_block_comment |-> FALSE]>>

\* what a reference to the name stands for: the stored value as text, else
\* the value of the environment, else nothing
StandsFor(vs, name) ==
    IF name \in DOMAIN vs
        THEN CASE vs[name] = IntValue(5) -> <<"5">>
               [] vs[name] = IntValue(12) -> <<"1", "2">>
               [] OTHER -> vs[name].v
    ELSE IF name = <<"E">> THEN <<"e">>
    ELSE IF name = <<"b">> THEN <<"t">>
    ELSE <<>>

\* the text the pieces from piece k on stand for; name is the $name whose
\* identifier the literal characters that follow it still extend
RECURSIVE Meaning(_, _, _, _, _)
Meaning(pieces, k, name, open, vs) ==
    LET flush == IF open THEN StandsFor(vs, name) ELSE <<>>
    IN  IF k > Len(pieces) THEN flush
        ELSE LET piece == pieces[k]
             IN  CASE piece.kind = "lit" ->
                        IF open /\ NameChar(piece.s[1])
                            THEN Meaning(pieces, k + 1, name \o piece.s, TRUE, vs)
                        ELSE flush \o piece.s \o Meaning(pieces, k + 1, <<>>, FALSE, vs)
                   [] piece.kind = "bare" ->
                        flush \o Meaning(pieces, k + 1, piece.s, TRUE, vs)
                   [] piece.kind = "braced" ->
                        flush \o StandsFor(vs, piece.s)
                              \o Meaning(pieces, k + 1, <<>>, FALSE, vs)

HasReference(pieces) == \E k \in 1..Len(pieces) : pieces[k].kind # "lit"

\* C24: in a double-quoted token or a token with `$`, every $name and
\* ${name} is replaced by the text of the stored value, else by the value of
\* the process environment, else by nothing, and the surrounding quotes are
\* kept; with x = 5, "value=$x" becomes "value=5", and $y with y defined
\* nowhere becomes the empty string.
C24_VariableExpansion ==
    (subject.fn = "expand" /\ returned # <<>>) =>
        LET arg == subject.arg
            meaning == Meaning(arg.pieces, 1, <<>>, FALSE, arg.variables)
        IN  /\ arg.quoted => returned[1] = <<Quote>> \o meaning \o <<Quote>>
            /\ (~arg.quoted /\ HasReference(arg.pieces)) => returned[1] = meaning
            /\ (arg.pieces = ValuePieces /\ arg.quoted /\ arg.variables = (<<"x">> :> IntValue(5)))
                  => returned[1] = <<Quote, "v", "a", "l", "u", "e", "=", "5", Quote>>
            /\ (arg.pieces = <<Bare(<<"y">>)>> /\ ~arg.quoted) => returned[1] = <<>>

\* a quoted token with a stored name, an environment name and an unknown
\* name has been expanded
C24_Witness ==
    /\ subject.fn = "expand"
    /\ subject.arg.pieces = <<Bare(<<"x">>), Braced(<<"E">>), Bare(<<"y">>)>>
    /\ subject.arg.quoted
    /\ subject.arg.variables = (<<"x">> :> IntValue(5))
    /\ returned = <<<<Quote, "5", "e", Quote>>>>

(***************************************************************************)
(* Further properties of the journal, checked under JournalSpec.           *)
(***************************************************************************)
\* C34: under any interleaving of pushes, undo, redo and the commands that
\* clear the journal, the two stacks together never hold more than
\* UNDO_LIMIT records, although redo appends to the undo stack without a
\* capacity check.
C34_JournalSize == Len(undo_stack) + Len(redo_stack) <= UNDO_LIMIT

\* redo has just filled the undo stack to its capacity
C34_Witness ==
    /\ jlast.op = "redo"
    /\ jlast.rec # NoRec
    /\ Len(undo_stack) = UNDO_LIMIT

\* C35: undo and redo move the record before the filesystem step: when the
\* restoration step of undo, or the re-application step of redo, fails (or
\* the kind of the record is unsupported), the record has still gone to the
\* other stack, nothing is rolled back, and the last-status is 1.
C35_MoveBeforeStep ==
    [][/\ (/\ jlast'.op = "undo"
           /\ undo_stack # <<>>
           /\ ~UndoStep(undo_stack[Len(undo_stack)], fs, backups).ok)
          => /\ undo_stack' = SubSeq(undo_stack, 1, Len(undo_stack) - 1)
             /\ redo_stack' = Append(redo_stack, undo_stack[Len(undo_stack)])
             /\ last' = 1
       /\ (/\ jlast'.op = "redo"
           /\ redo_stack # <<>>
           /\ ~RedoStep(redo_stack[Len(redo_stack)], fs, backups).ok)
          => /\ redo_stack' = SubSeq(redo_stack, 1, Len(redo_stack) - 1)
             /\ undo_stack' = Append(undo_stack, redo_stack[Len(redo_stack)])
             /\ last' = 1]_vars

\* an undo whose restoration step failed has moved its record
C35_Witness ==
    /\ jlast.op = "undo"
    /\ jlast.rec # NoRec
    /\ last = 1
    /\ redo_stack # <<>>
    /\ redo_stack[Len(redo_stack)] = jlast.rec

(***************************************************************************)
(* Further properties of the tables of State, checked under StoreSpec.     *)
(***************************************************************************)
\* the tables after RCManager.save and a load of that profile into cleared
\* tables
Reloaded == load(Cleared(save(Tables), current_profile))

\* C31: saving the state and loading that profile into cleared tables gives
\* the same alias table, the same variable table (names, values, readonly
\* flags, exported set, no extra names) and the same function table.
C31_SaveLoadRoundTrip ==
    /\ Reloaded.aliases = aliases
    /\ Reloaded.variables = variables
    /\ Reloaded.readonly_vars = readonly_vars
    /\ Reloaded.exported_vars = exported_vars
    /\ Reloaded.functions = user_functions

\* C32: for every exported name, the value of the process environment for
\* that name is the stored value of the variable as text, also after a
\* later write to the variable.
C32_ExportMirrored ==
    \A n \in exported_vars :
        n \in DOMAIN variables =>
            n \in DOMAIN os_environ /\ os_environ[n] = variables[n]

\* C36: every name of the readonly subset and every name of the exported
\* subset is a defined name of the variable store, after any sequence of
\* let, ask, unset, export, pth, gbc, cnf and profile switches.
C36_FlagsInsideStore ==
    /\ readonly_vars \subseteq DOMAIN variables
    /\ exported_vars \subseteq DOMAIN variables

\* a cleaner ran over a store with a readonly and an exported variable,
\* kept the readonly one and dropped the other with its export
C36_Witness ==
    /\ slast.line \in {<<"cnf">>, <<"gbc">>}
    /\ "q" \in readonly_vars
    /\ "q" \in DOMAIN variables
    /\ "PATH" \in exported_vars
    /\ "x" \notin DOMAIN variables

(***************************************************************************)
(* ScriptCommands.sns.                                                     *)
(***************************************************************************)
\* the positions of the history at which sns started a script
SnsStarts ==
    {i \in 1..Len(trace) :
        trace[i].t = "exec" /\ trace[i].out = "call" /\ trace[i].cmd[1] = "sns"}
\* the lines of the buffers that enclose the sns line of a scenario
CallerLines == {Say("a"), Say("b"), Say("c"), Say("w"), Say("n")}
CallerRan(i) ==
    \E j \in (i + 1)..Len(trace) : trace[j].t = "exec" /\ trace[j].cmd \in CallerLines

\* C33: once sns has found a .sig script and started it, the calling
\* script never resumes: no line of an enclosing buffer is executed after
\* the sns line, whether the new script completes, exits, raises a break
\* at its top level or raises an error.
C33_SnsEndsScript == \A i \in SnsStarts : ~CallerRan(i)


(***************************************************************************)
(* A break outside every loop, case body and function.                     *)
(***************************************************************************)
\* the buffer on top was handed to run_lines by main(), run or sns
ScriptBuffer ==
    /\ Len(stack) >= 2 /\ Top.kind = "lines"
    /\ stack[Len(stack) - 1].kind \in {"main", "run", "sns"}
BreakInScript == Running /\ signal = "break" /\ ScriptBuffer
BreakInMain == Running /\ signal = "break" /\ Top.kind = "main"

\* C39: a break raised outside any rpt block, case body or function call
\* (by a brk line or by a command) ends its buffer: run_lines executes no
\* further line of it and hands the break to its caller; when the caller is
\* main() the script run ends (with exit code 1).
C39_BreakEndsBuffer ==
    /\ [][/\ BreakInScript => stack' = Below /\ signal' = "break" /\ trace' = trace
          /\ BreakInMain => status' = "exited" /\ exit_code' = 1 /\ trace' = trace]_vars
    /\ (BreakInScript /\ prog.fam = "topbrk") ~> (Done /\ exit_code = 1)

C39_Witness ==
    /\ prog.fam = "topbrk" /\ Done /\ exit_code = 1
    /\ prog.pre # <<>> /\ Says(trace) = Words(prog.pre)
    /\ prog.whens = <<<<"k">>>>


(***************************************************************************)
(* Control keywords that are not the first token of a buffer line.         *)
(***************************************************************************)
\* the command of the line under the cursor is handed to _execute_line by
\* the `if` branch of run_lines or by clf
HandsOver ==
    /\ Running /\ signal = "none"
    /\ \/ Top.kind = "clf" /\ Top.index < Len(Top.lines)
       \/ AtLine /\ Cur # <<>> /\ ControlWord(Cur) = "if"
\* what the steps of the run added to the history
Added == SubSeq(trace', Len(trace) + 1, Len(trace'))
IsControlEvent(e) == e.t \in {"goto", "iter"}
\* the frames a handler may put on the stack are those of clf, run and sns
HandlerFrames ==
    /\ Len(stack') > Len(stack)
    /\ SubSeq(stack', 1, Len(stack)) = stack
    /\ stack'[Len(stack) + 1].kind \in {"clf", "run", "sns"}
\* the words a scenario of the family says when no keyword takes effect
TrailingSays ==
    Words(prog.pre) \o (IF prog.whens = <<<<"clf", "fk">>>> THEN <<"f2">> ELSE <<>>)
        \o <<"a", "c">>

\* C37: goto, rpt, case and if take effect only as the first token of a
\* buffer line.  As the command of `if ... then` or as a stored command of
\* a function they are dispatched like any command: the cursor of the
\* buffer advances by one line (or the handler raises, or calls a
\* function or script), no jump is made and no loop iteration is started;
\* `if 1 == 1 then goto L` with L defined is followed by the next line.
C37_KeywordsOnlyFirst ==
    /\ [][HandsOver =>
             /\ SelectSeq(Added, IsControlEvent) = <<>>
             /\ \/ stack' = Advanced(stack)
                \/ stack' = stack /\ signal' # "none"
                \/ Top.kind = "clf" /\ stack' \in {Below, Advanced(Below)}
                \/ HandlerFrames]_vars
    /\ [](prog.fam = "trailing" =>
             /\ SelectSeq(trace, IsControlEvent) = <<>>
             /\ Done => Says(trace) = TrailingSays)

C37_Witness ==
    /\ prog.fam = "trailing" /\ Done /\ prog.pre # <<>>
    /\ prog.whens = <<<<"if", "1", "==", "1", "then", "goto", "L">>>>
    /\ Says(trace) = <<"b", "a", "c">>


(***************************************************************************)
(* goto inside a captured body.                                            *)
(***************************************************************************)
\* the labels defined by the lines of a buffer, and the cursor positions
\* that follow a definition of a label
LabelsOf(lines) == {LabelName(lines[i][1]) : i \in {j \in 1..Len(lines) : IsLabel(lines[j])}}
AfterLabel(lines, label) ==
    {i : i \in {j \in 1..Len(lines) : IsLabel(lines[j]) /\ LabelName(lines[j][1]) = label}}
\* run_lines is at a `goto <label>` line of the body of a rpt or case
GotoInBody ==
    /\ AtLine /\ Cur # <<>> /\ ControlWord(Cur) = "goto" /\ Len(Cur) >= 2
    /\ Len(stack) >= 3 /\ stack[Len(stack) - 1].kind \in {"rpt", "case"}

\* C40: label maps are per buffer.  A goto executed inside the body of a
\* rpt or case looks its label up among the labels of that body only: a
\* label of the body moves the cursor of the body; a label defined only in
\* the enclosing buffer is reported as not found, the cursors of the
\* enclosing buffers stay where they are and the body goes on with its
\* next line.
C40_LabelsPerBuffer ==
    /\ [][GotoInBody =>
             IF Cur[2] \in LabelsOf(Top.lines)
                 THEN /\ SubSeq(stack', 1, Len(stack) - 1) = Below
                      /\ Len(stack') = Len(stack)
                      /\ stack'[Len(stack)].index \in AfterLabel(Top.lines, Cur[2])
             ELSE /\ stack' = Advanced(stack)
                  /\ trace' = Append(trace, Report("label not found"))
                  /\ ilast' = 1]_vars
    /\ [](prog.fam = "bodygoto" =>
             /\ Done => Output(trace) = prog.whens
             /\ prog.els # "inner" => SelectSeq(trace, IsJump) = <<>>)

C40_Witness ==
    /\ prog.fam = "bodygoto" /\ Done /\ prog.els = "rpt" /\ prog.n = 2
    /\ prog.lines[1] = <<"L:">>
    /\ Output(trace) = <<"a", "d", "!", "e", "d", "!", "e", "b", "c">>


(***************************************************************************)
(* Termination of a run without jumps.                                     *)
(***************************************************************************)
\* no line of the buffer holds the word goto, and no rpt line counts to inf
GotoFree(lines) ==
    \A i \in 1..Len(lines) : \A k \in 1..Len(lines[i]) : lines[i][k] \notin {"goto", "inf"}
\* the cursor of every activation of run_lines and of clf is inside its buffer
CursorsInside ==
    \A i \in 1..Len(stack) :
        stack[i].kind \in {"lines", "clf"} =>
            stack[i].index >= 0 /\ stack[i].index <= Len(stack[i].lines)
\* control is at the head of the while loop of an activation of run_lines
\* that was on the stack before the step
BackAtLoopHead ==
    /\ status' = "running" /\ signal' = "none"
    /\ Len(stack') >= 1 /\ Len(stack') <= Len(stack)
    /\ stack'[Len(stack')].kind = "lines"
\* the loop of a rpt line starts one more iteration
StartsIteration == Running /\ Top.kind = "rpt" /\ Len(stack') > Len(stack)

\* C38: a run over a buffer without goto and without `rpt inf` terminates.
\* The cursor of every activation stays within 0..len(buffer); each time
\* control comes back to the loop head of an activation its cursor is
\* larger than before; every iteration of a rpt body uses up one of the
\* finitely many iterations that are left.
C38_Termination ==
    /\ []CursorsInside
    /\ [][GotoFree(prog.lines) =>
             /\ BackAtLoopHead =>
                    stack'[Len(stack')].index > stack[Len(stack')].index
             /\ StartsIteration =>
                    Top.left > 0 /\ stack'[Len(stack)].left = Top.left - 1]_vars
    /\ (Running /\ GotoFree(prog.lines)) ~> Done

C38_Witness ==
    /\ prog.fam = "nest" /\ GotoFree(prog.lines) /\ Done
    /\ prog.n = MaxCount /\ prog.k = MaxCount
    /\ Iterations(trace) = 2 * MaxCount

====
